---- MODULE Spec2Model ----
(***************************************************************************)
(* Model of ffsim's FCI utilities (src/ffsim/fci.py): the matrix-free      *)
(* contraction routines contract_2e, contract_num_op_sum and               *)
(* contract_diag_coulomb, get_dimension, and the LinearOperator adapters   *)
(* built on them.                                                          *)
(*                                                                         *)
(* Scalars are exact: a complex number is a pair <<re, im>> of integers,   *)
(* and an array is a record [dtype, den, data] whose entries are the       *)
(* numerators data[k] over the common positive denominator den (den = 0    *)
(* stands for pyscf's 1e-100 regulariser).  Floating-point rounding is not *)
(* modelled.  dtype is "float" or "complex" (numpy float64 / complex128).  *)
(***************************************************************************)
EXTENDS Integers, Sequences, FiniteSets, TLC

VARIABLES
    norb,       \* number of spatial orbitals of the caller's problem
    nelec,      \* <<n_alpha, n_beta>>, or <<n>> for a single integer
    operand,    \* the caller's operator tensors (record, field kind)
    vec,        \* the caller's vector
    linop,      \* the LinearOperator built last (kind "none" before)
    op,         \* the routine that ran last ("none" before any call)
    ret,        \* what that routine returned or raised
    tables,     \* the link tables and occupation lists that routine built and used
    calls,      \* the forward-applies in flight, one per concurrent caller
    history     \* the arrays as the caller created them, the calls made since
                \* and what the first forward-apply returned

vars == <<norb, nelec, operand, vec, linop, op, ret, tables, calls, history>>

\* ------------------------------------------------------------ bounds
MaxNorb == 3
MaxDim == 9

\* ----------------------------------------------------------- scalars
CZero == <<0, 0>>
COne == <<1, 0>>
CAdd(x, y) == <<x[1] + y[1], x[2] + y[2]>>
CSub(x, y) == <<x[1] - y[1], x[2] - y[2]>>
CMul(x, y) == <<x[1] * y[1] - x[2] * y[2], x[1] * y[2] + x[2] * y[1]>>
CScale(s, x) == <<s * x[1], s * x[2]>>
CConj(x) == <<x[1], -x[2]>>
CReal(x) == <<x[1], 0>>
CImag(x) == <<x[2], 0>>
CTimesI(x) == <<-x[2], x[1]>>

RECURSIVE CSumF(_, _)
CSumF(f, S) ==
    IF S = {} THEN CZero
    ELSE LET x == CHOOSE y \in S : TRUE
         IN  CAdd(f[x], CSumF(f, S \ {x}))

\* the sum of F(x) over the finite set S
CSum(S, F(_)) == CSumF([x \in S |-> F(x)], S)

RECURSIVE ISumF(_, _)
ISumF(f, S) ==
    IF S = {} THEN 0
    ELSE LET x == CHOOSE y \in S : TRUE
         IN  f[x] + ISumF(f, S \ {x})

ISum(S, F(_)) == ISumF([x \in S |-> F(x)], S)

RECURSIVE Pow2(_)
Pow2(n) == IF n = 0 THEN 1 ELSE 2 * Pow2(n - 1)

Min(a, b) == IF a <= b THEN a ELSE b

\* numpy.result_type of two dtypes
ResultType(d1, d2) == IF d1 = "complex" \/ d2 = "complex" THEN "complex" ELSE "float"

\* numpy's same_kind rule for an in-place ufunc: a complex value cannot be
\* written into a float array
CanCastInPlace(from, to) == ~(from = "complex" /\ to = "float")

Orbs(n) == 0 .. (n - 1)

Idx4(n) == Orbs(n) \X Orbs(n) \X Orbs(n) \X Orbs(n)

NoArray == [dtype |-> "none", den |-> 1, data |-> <<>>]
\* no (diag_strings, off_diag_strings, off_diag_index) triple
NoIndex == [diag_strings |-> <<>>, off_diag_strings |-> <<>>, off_diag_index |-> <<>>]
Raised(e) == [status |-> e, array |-> NoArray, number |-> 0, index |-> NoIndex]
Returned(a) == [status |-> "ok", array |-> a, number |-> 0, index |-> NoIndex]
ReturnedNumber(n) == [status |-> "ok", array |-> NoArray, number |-> n, index |-> NoIndex]
ReturnedIndex(x) == [status |-> "ok", array |-> NoArray, number |-> 0, index |-> x]
NoRet == [status |-> "none", array |-> NoArray, number |-> 0, index |-> NoIndex]

\* ------------------------------------------- scipy.special.comb(exact)
\* comb(N, k, exact=True): exact integer arithmetic, 0 outside 0 <= k <= N
RECURSIVE CombProd(_, _, _)
CombProd(M, j, nterms) ==
    \* <<numerator, denominator>> after the terms j .. nterms
    IF j > nterms THEN <<1, 1>>
    ELSE LET r == CombProd(M, j + 1, nterms)
         IN  <<(M - j) * r[1], j * r[2]>>

comb(N, k) ==
    IF k > N \/ N < 0 \/ k < 0 THEN 0
    ELSE LET nd == CombProd(N + 1, 1, Min(k, N - k))
         IN  nd[1] \div nd[2]

\* ------------------------------------------------- pyscf.fci.cistring
\* An occupation string is the set of its occupied orbitals; pyscf holds it
\* as the integer with those bits set and orders strings by that integer.
StrVal(S) == ISum(S, LAMBDA i : Pow2(i))

StringSet(n, nocc) == {S \in SUBSET Orbs(n) : Cardinality(S) = nocc}

\* cistring.num_strings
num_strings(n, nocc) == comb(n, nocc)

\* cistring.make_strings: the strings in address order, addresses from 0
make_strings(n, nocc) ==
    LET all == StringSet(n, nocc)
    IN  [k \in 0 .. (Cardinality(all) - 1) |->
            CHOOSE S \in all : Cardinality({T \in all : StrVal(T) < StrVal(S)}) = k]

\* cistring._gen_occslst: per address, the occupied orbitals (ascending)
gen_occslst(n, nocc) == make_strings(n, nocc)

\* mutant: only the occupied orbitals below the annihilated one are counted
cre_des_sign_annihilation_only(p, q, S) ==
    IF p = q THEN 1
    ELSE IF p \in S \/ q \notin S THEN 0
    ELSE IF Cardinality({k \in S : k < q}) % 2 = 0 THEN 1 ELSE -1

\* cistring.cre_des_sign(p, q, string0): parity of a+_p a_q on string0
cre_des_sign(p, q, S) ==
    IF p = q THEN 1
    ELSE IF p \in S \/ q \notin S THEN 0
    ELSE LET lo == Min(p, q)
             hi == IF p > q THEN p ELSE q
             between == {k \in S : lo < k /\ k < hi}
         IN  IF Cardinality(between) % 2 = 0 THEN 1 ELSE -1

\* cistring.gen_linkstr_index(range(norb), nocc): per address str0, the
\* entries <<a, i, str1, sign>>: create a, annihilate i, destination, parity
gen_linkstr_index(n, nocc) ==
    LET strs == make_strings(n, nocc)
        addr(S) == CHOOSE k \in DOMAIN strs : strs[k] = S
    IN  [str0 \in DOMAIN strs |->
            {<<a, i, addr((strs[str0] \ {i}) \cup {a}), cre_des_sign(a, i, strs[str0])>> :
                <<a, i>> \in {ai \in Orbs(n) \X Orbs(n) :
                                /\ ai[2] \in strs[str0]
                                /\ (ai[1] = ai[2] \/ ai[1] \notin strs[str0])}}]

\* the entries of a link table, each with its source address in front
LinkEntries(tab) ==
    UNION {{<<str0, e[1], e[2], e[3], e[4]>> : e \in tab[str0]} : str0 \in DOMAIN tab}

\* ------------------------------------------------------- contract_2e
\* mutant: the odd particle goes to the beta sector
SplitNelec_beta_holds_extra(ne) ==
    IF Len(ne) = 1
    THEN LET neleca == ne[1] \div 2 IN <<neleca, ne[1] - neleca>>
    ELSE <<ne[1], ne[2]>>

\* nelec as the code unpacks it (fci.py 33-37)
SplitNelec(ne) ==
    IF Len(ne) = 1
    THEN LET nelecb == ne[1] \div 2 IN <<ne[1] - nelecb, nelecb>>
    ELSE <<ne[1], ne[2]>>

NoLinkIndex == <<>>

\* mutant: the row of the source address receives the intermediate of the
\* destination address
SecondPass_source_receives(t1, ea, eb, na, nb) ==
    [AB \in (0 .. na - 1) \X (0 .. nb - 1) |->
        CAdd(CSum({e \in ea : e[1] = AB[1]},
                  LAMBDA e : CScale(e[5], t1[<<e[2], e[3], e[4], AB[2]>>])),
             CSum({e \in eb : e[1] = AB[2]},
                  LAMBDA e : CScale(e[5], t1[<<e[2], e[3], AB[1], e[4]>>])))]

\* second pass of contract_2e (fci.py 56-62) on the contracted intermediate
\* t1 (a function of <<a, i, A, B>>)
SecondPass(t1, ea, eb, na, nb) ==
    [AB \in (0 .. na - 1) \X (0 .. nb - 1) |->
        CAdd(CSum({e \in ea : e[4] = AB[1]},
                  LAMBDA e : CScale(e[5], t1[<<e[2], e[3], e[1], AB[2]>>])),
             CSum({e \in eb : e[4] = AB[2]},
                  LAMBDA e : CScale(e[5], t1[<<e[2], e[3], AB[1], e[1]>>])))]

contract_2e(eri, fcivec, n, ne, link_index) ==
    LET nab == SplitNelec(ne)
        neleca == nab[1]
        nelecb == nab[2]
        link_indexa == IF link_index = NoLinkIndex
                       THEN gen_linkstr_index(n, neleca) ELSE link_index[1]
        link_indexb == IF link_index = NoLinkIndex
                       THEN gen_linkstr_index(n, nelecb) ELSE link_index[2]
        na == num_strings(n, neleca)
        nb == num_strings(n, nelecb)
        ea == LinkEntries(link_indexa)
        eb == LinkEntries(link_indexb)
        AB == (0 .. na - 1) \X (0 .. nb - 1)
        ci0 == [x \in AB |-> fcivec.data[x[1] * nb + x[2] + 1]]
        \* first pass (fci.py 46-52)
        t1 == [x \in Orbs(n) \X Orbs(n) \X (0 .. na - 1) \X (0 .. nb - 1) |->
                 CAdd(CSum({e \in ea : e[2] = x[1] /\ e[3] = x[2] /\ e[4] = x[3]},
                           LAMBDA e : CScale(e[5], ci0[<<e[1], x[4]>>])),
                      CSum({e \in eb : e[2] = x[1] /\ e[3] = x[2] /\ e[4] = x[4]},
                           LAMBDA e : CScale(e[5], ci0[<<x[3], e[1]>>])))]
        \* lib.einsum("bjai,aiAB->bjAB", eri, t1) (fci.py 54)
        t1c == [x \in Orbs(n) \X Orbs(n) \X (0 .. na - 1) \X (0 .. nb - 1) |->
                  CSum(Orbs(n) \X Orbs(n),
                       LAMBDA ai : CMul(eri.data[<<x[1], x[2], ai[1], ai[2]>>],
                                        t1[<<ai[1], ai[2], x[3], x[4]>>]))]
        t1cdtype == ResultType(eri.dtype, fcivec.dtype)
        fcinew == SecondPass(t1c, ea, eb, na, nb)
    IN  IF Len(fcivec.data) # na * nb
        THEN Raised("ValueError")              \* fcivec.reshape(na, nb)
        ELSE IF (ea \cup eb) # {} /\ ~CanCastInPlace(t1cdtype, fcivec.dtype)
        THEN Raised("UFuncTypeError")          \* fcinew[str1] += sign * t1[...]
        ELSE Returned([dtype |-> fcivec.dtype,
                       den |-> eri.den,
                       data |-> [k \in 1 .. (na * nb) |->
                                   fcinew[<<(k - 1) \div nb, (k - 1) % nb>>]]])

\* ------------------------------------------------------ get_dimension
\* mutant: the alpha dimension used for both sectors
get_dimension_alpha_twice(n, ne) ==
    LET n_alpha == ne[1]
        dim_a == comb(n, n_alpha)
    IN  dim_a * dim_a

\* fci.py 66-71
get_dimension(n, ne) ==
    LET n_alpha == ne[1]
        n_beta == ne[2]
        dim_a == comb(n, n_alpha)
        dim_b == comb(n, n_beta)
    IN  dim_a * dim_b

\* ------------------------------------------------------- matrix views
Grid(R, C) == (0 .. R - 1) \X (0 .. C - 1)

\* vec.reshape((R, C)) of a flat sequence, and reshape(-1) back
Reshape2(data, R, C) == [x \in Grid(R, C) |-> data[x[1] * C + x[2] + 1]]
Flatten(m, R, C) == [k \in 1 .. (R * C) |-> m[<<(k - 1) \div C, (k - 1) % C>>]]
Transpose(m, R, C) == [x \in Grid(C, R) |-> m[<<x[2], x[1]>>]]
Zeros2(R, C) == [x \in Grid(R, C) |-> CZero]

NoOccupations == <<>>

\* ------------------------------------------------ contract_num_op_sum
\* the compiled kernel: every row of out gains the row's coefficient sum
\* times the same row of v
contract_num_op_sum_spin_into_buffer(v, coeffs, occupations, out) ==
    [x \in DOMAIN out |->
        CAdd(out[x], CMul(CSum(occupations[x[1]], LAMBDA orb : coeffs[orb]), v[x]))]

\* mutant: the transposed buffer is flattened without transposing it back
contract_num_op_sum_no_transpose_back(v, coeffs, n, ne, occupations_a, occupations_b) ==
    LET n_alpha == ne[1]
        n_beta == ne[2]
        occ_a == IF occupations_a = NoOccupations THEN gen_occslst(n, n_alpha)
                 ELSE occupations_a
        occ_b == IF occupations_b = NoOccupations THEN gen_occslst(n, n_beta)
                 ELSE occupations_b
        dim_a == comb(n, n_alpha)
        dim_b == comb(n, n_beta)
        v2 == Reshape2(v.data, dim_a, dim_b)
        out0 == Zeros2(dim_a, dim_b)
        out1 == contract_num_op_sum_spin_into_buffer(v2, coeffs.data, occ_a, out0)
        vT == Transpose(v2, dim_a, dim_b)
        outT == Transpose(out1, dim_a, dim_b)
        out2 == contract_num_op_sum_spin_into_buffer(vT, coeffs.data, occ_b, outT)
    IN  IF Len(v.data) # dim_a * dim_b
        THEN Raised("ValueError")
        ELSE Returned([dtype |-> v.dtype,
                       den |-> v.den * coeffs.den,
                       data |-> Flatten(out2, dim_b, dim_a)])

\* fci.py 152-188
contract_num_op_sum(v, coeffs, n, ne, occupations_a, occupations_b) ==
    LET n_alpha == ne[1]
        n_beta == ne[2]
        occ_a == IF occupations_a = NoOccupations THEN gen_occslst(n, n_alpha)
                 ELSE occupations_a
        occ_b == IF occupations_b = NoOccupations THEN gen_occslst(n, n_beta)
                 ELSE occupations_b
        dim_a == comb(n, n_alpha)
        dim_b == comb(n, n_beta)
        v2 == Reshape2(v.data, dim_a, dim_b)
        out0 == Zeros2(dim_a, dim_b)
        \* apply alpha
        out1 == contract_num_op_sum_spin_into_buffer(v2, coeffs.data, occ_a, out0)
        \* apply beta, on the transposed views
        vT == Transpose(v2, dim_a, dim_b)
        outT == Transpose(out1, dim_a, dim_b)
        out2 == contract_num_op_sum_spin_into_buffer(vT, coeffs.data, occ_b, outT)
    IN  IF Len(v.data) # dim_a * dim_b
        THEN Raised("ValueError")              \* vec.reshape((dim_a, dim_b))
        ELSE Returned([dtype |-> v.dtype,
                       den |-> v.den * coeffs.den,
                       data |-> Flatten(Transpose(out2, dim_b, dim_a), dim_a, dim_b)])

\* ---------------------------------------------- contract_diag_coulomb
HalfDen == 2

\* mat[np.diag_indices(norb)] *= 0.5, exactly: the denominator doubles and
\* the off-diagonal numerators with it
HalveDiagonal(m) ==
    [dtype |-> m.dtype,
     den |-> HalfDen * m.den,
     data |-> [x \in DOMAIN m.data |->
                 IF x[1] = x[2] THEN m.data[x] ELSE CScale(HalfDen, m.data[x])]]

\* the compiled kernel: every amplitude is scaled by the sum of mat over
\* the unordered pairs (the diagonal included) of each spin's occupied
\* orbitals plus the sum of mat_alpha_beta over the alpha-beta pairs
contract_diag_coulomb_into_buffer(v, mat, n, mat_alpha_beta, occupations_a, occupations_b, out) ==
    LET same(O) == CSum({ij \in O \X O : ij[1] <= ij[2]}, LAMBDA ij : mat[ij])
        alpha_coeffs == [A \in DOMAIN occupations_a |-> same(occupations_a[A])]
        beta_coeffs == [B \in DOMAIN occupations_b |-> same(occupations_b[B])]
        coeff_map == [A \in DOMAIN occupations_a |->
                        [orb \in Orbs(n) |->
                            CSum(occupations_a[A], LAMBDA i : mat_alpha_beta[<<i, orb>>])]]
    IN  [x \in DOMAIN out |->
            CAdd(out[x],
                 CMul(CAdd(CAdd(alpha_coeffs[x[1]], beta_coeffs[x[2]]),
                           CSum(occupations_b[x[2]], LAMBDA orb : coeff_map[x[1]][orb])),
                      v[x]))]

\* mutant: mat_alpha_beta defaults to mat after the diagonal was halved
contract_diag_coulomb_default_after_halving(v, mat, n, ne, mat_alpha_beta, occupations_a, occupations_b) ==
    LET n_alpha == ne[1]
        n_beta == ne[2]
        dim_a == comb(n, n_alpha)
        dim_b == comb(n, n_beta)
        occ_a == IF occupations_a = NoOccupations THEN gen_occslst(n, n_alpha)
                 ELSE occupations_a
        occ_b == IF occupations_b = NoOccupations THEN gen_occslst(n, n_beta)
                 ELSE occupations_b
        local == HalveDiagonal(mat)
        mab == IF mat_alpha_beta = NoArray THEN local ELSE mat_alpha_beta
        matN == [x \in DOMAIN local.data |-> CScale(mab.den, local.data[x])]
        mabN == [x \in DOMAIN mab.data |-> CScale(local.den, mab.data[x])]
        v2 == Reshape2(v.data, dim_a, dim_b)
        out == contract_diag_coulomb_into_buffer(
                   v2, matN, n, mabN, occ_a, occ_b, Zeros2(dim_a, dim_b))
    IN  [mat |-> mat,
         ret |-> IF Len(v.data) # dim_a * dim_b
                 THEN Raised("ValueError")
                 ELSE Returned([dtype |-> v.dtype,
                                den |-> local.den * mab.den * v.den,
                                data |-> Flatten(out, dim_a, dim_b)])]

\* mutant: the diagonal is halved in the caller's array, without the copy
contract_diag_coulomb_in_place(v, mat, n, ne, mat_alpha_beta, occupations_a, occupations_b) ==
    LET n_alpha == ne[1]
        n_beta == ne[2]
        dim_a == comb(n, n_alpha)
        dim_b == comb(n, n_beta)
        occ_a == IF occupations_a = NoOccupations THEN gen_occslst(n, n_alpha)
                 ELSE occupations_a
        occ_b == IF occupations_b = NoOccupations THEN gen_occslst(n, n_beta)
                 ELSE occupations_b
        local == HalveDiagonal(mat)
        mab == IF mat_alpha_beta = NoArray THEN local ELSE mat_alpha_beta
        matN == [x \in DOMAIN local.data |-> CScale(mab.den, local.data[x])]
        mabN == [x \in DOMAIN mab.data |-> CScale(local.den, mab.data[x])]
        v2 == Reshape2(v.data, dim_a, dim_b)
        out == contract_diag_coulomb_into_buffer(
                   v2, matN, n, mabN, occ_a, occ_b, Zeros2(dim_a, dim_b))
    IN  [mat |-> local,
         ret |-> IF Len(v.data) # dim_a * dim_b
                 THEN Raised("ValueError")
                 ELSE Returned([dtype |-> v.dtype,
                                den |-> local.den * mab.den * v.den,
                                data |-> Flatten(out, dim_a, dim_b)])]

\* fci.py 219-259.  Returns the outcome of the call and the caller's mat as
\* the call leaves it.
contract_diag_coulomb(v, mat, n, ne, mat_alpha_beta, occupations_a, occupations_b) ==
    LET mab == IF mat_alpha_beta = NoArray THEN mat ELSE mat_alpha_beta
        n_alpha == ne[1]
        n_beta == ne[2]
        dim_a == comb(n, n_alpha)
        dim_b == comb(n, n_beta)
        occ_a == IF occupations_a = NoOccupations THEN gen_occslst(n, n_alpha)
                 ELSE occupations_a
        occ_b == IF occupations_b = NoOccupations THEN gen_occslst(n, n_beta)
                 ELSE occupations_b
        \* mat = mat.copy(): the halving works on a private copy
        local == HalveDiagonal(mat)
        \* numerators over the common denominator local.den * mab.den
        matN == [x \in DOMAIN local.data |-> CScale(mab.den, local.data[x])]
        mabN == [x \in DOMAIN mab.data |-> CScale(local.den, mab.data[x])]
        v2 == Reshape2(v.data, dim_a, dim_b)
        out == contract_diag_coulomb_into_buffer(
                   v2, matN, n, mabN, occ_a, occ_b, Zeros2(dim_a, dim_b))
    IN  [mat |-> mat,
         ret |-> IF Len(v.data) # dim_a * dim_b
                 THEN Raised("ValueError")     \* vec.reshape((dim_a, dim_b))
                 ELSE Returned([dtype |-> v.dtype,
                                den |-> local.den * mab.den * v.den,
                                data |-> Flatten(out, dim_a, dim_b)])]

\* contract_diag_coulomb statement by statement, for calls that interleave.
\* The local name mat is a reference: to the caller's array on entry, to a
\* private array after mat = mat.copy() (fci.py 245).
\* mutant: the local name keeps referring to the caller's array
mat_copy_keeps_reference(m) == [private |-> FALSE, mat |-> m]

mat_copy(m) == [private |-> TRUE, mat |-> m]

\* fci.py 247-259: reshape, kernel and flatten, on the matrix the local name
\* mat refers to after the halving
contract_diag_coulomb_after_halving(v, local, n, ne, mab, occupations_a, occupations_b) ==
    LET n_alpha == ne[1]
        n_beta == ne[2]
        dim_a == comb(n, n_alpha)
        dim_b == comb(n, n_beta)
        matN == [x \in DOMAIN local.data |-> CScale(mab.den, local.data[x])]
        mabN == [x \in DOMAIN mab.data |-> CScale(local.den, mab.data[x])]
        v2 == Reshape2(v.data, dim_a, dim_b)
        out == contract_diag_coulomb_into_buffer(
                   v2, matN, n, mabN, occupations_a, occupations_b, Zeros2(dim_a, dim_b))
    IN  IF Len(v.data) # dim_a * dim_b
        THEN Raised("ValueError")
        ELSE Returned([dtype |-> v.dtype,
                       den |-> local.den * mab.den * v.den,
                       data |-> Flatten(out, dim_a, dim_b)])

\* ----------------------------------------- gen_orbital_rotation_index
\* an entry of an np.empty array that nothing has written
Uninitialized == -1

\* the elements of a finite set of integers, or of tuples compared by their
\* first component, in increasing order, indexed from 0
Ascending(S) ==
    [k \in 0 .. (Cardinality(S) - 1) |->
        CHOOSE x \in S : Cardinality({y \in S : y < x}) = k]
AscendingByFirst(S) ==
    [k \in 0 .. (Cardinality(S) - 1) |->
        CHOOSE x \in S : Cardinality({y \in S : y[1] < x[1]}) = k]

\* np.empty((rows, cols)) and np.empty((rows, cols, depth, 3))
Empty2(rows, cols) == [i \in 0 .. (rows - 1) |-> [k \in 0 .. (cols - 1) |-> Uninitialized]]
Empty4(rows, cols, depth) ==
    [i \in 0 .. (rows - 1) |-> [k \in 0 .. (cols - 1) |->
        [r \in 0 .. (depth - 1) |-> <<Uninitialized, Uninitialized, Uninitialized>>]]]

\* the compiled kernel: one scan of the sector's excitation table.  For
\* every orbital i the addresses are bucketed by whether i is occupied
\* (the table of an address has the diagonal entry <<i, i>> exactly then);
\* for every address with i unoccupied, the entries that create i give the
\* rows <<j, str1, sign>>.  The buckets are written into the buffers from
\* position 0; a write outside a buffer is an out-of-bounds panic, and a
\* position nothing is written to keeps what np.empty left there.
gen_orbital_rotation_index_in_place(n, nocc, linkstr_index, diag_strings, off_diag_strings, off_diag_index) ==
    LET occ(str0) == {e[2] : e \in {x \in linkstr_index[str0] : x[1] = x[2]}}
        diag == [i \in Orbs(n) |-> Ascending({str0 \in DOMAIN linkstr_index : i \in occ(str0)})]
        off == [i \in Orbs(n) |-> Ascending({str0 \in DOMAIN linkstr_index : i \notin occ(str0)})]
        rows(i, str0) ==
            AscendingByFirst({<<e[2], e[3], e[4]>> :
                                e \in {x \in linkstr_index[str0] : x[1] = i /\ x[2] # i}})
        fits == \A i \in Orbs(n) :
                    /\ DOMAIN diag[i] \subseteq DOMAIN diag_strings[i]
                    /\ DOMAIN off[i] \subseteq DOMAIN off_diag_strings[i]
                    /\ DOMAIN off[i] \subseteq DOMAIN off_diag_index[i]
                    /\ \A k \in DOMAIN off[i] :
                            DOMAIN rows(i, off[i][k]) \subseteq DOMAIN off_diag_index[i][k]
    IN  IF ~fits THEN Raised("PanicException")
        ELSE ReturnedIndex(
                [diag_strings |->
                    [i \in Orbs(n) |-> [k \in DOMAIN diag_strings[i] |->
                        IF k \in DOMAIN diag[i] THEN diag[i][k] ELSE diag_strings[i][k]]],
                 off_diag_strings |->
                    [i \in Orbs(n) |-> [k \in DOMAIN off_diag_strings[i] |->
                        IF k \in DOMAIN off[i] THEN off[i][k] ELSE off_diag_strings[i][k]]],
                 off_diag_index |->
                    [i \in Orbs(n) |-> [k \in DOMAIN off_diag_index[i] |->
                        [r \in DOMAIN off_diag_index[i][k] |->
                            IF k \in DOMAIN off[i] /\ r \in DOMAIN rows(i, off[i][k])
                            THEN rows(i, off[i][k])[r]
                            ELSE off_diag_index[i][k][r]]]]])

\* mutant: the two column counts are exchanged
gen_orbital_rotation_index_swapped_dims(n, nocc, linkstr_index) ==
    LET tab == IF linkstr_index = NoLinkIndex THEN gen_linkstr_index(n, nocc)
               ELSE linkstr_index
        dim_diag == comb(n - 1, nocc)
        dim_off_diag == comb(n - 1, nocc - 1)
    IN  gen_orbital_rotation_index_in_place(
            n, nocc, tab, Empty2(n, dim_diag), Empty2(n, dim_off_diag),
            Empty4(n, dim_off_diag, nocc))

\* mutant: the rows of off_diag_index are counted by the unoccupied orbitals
gen_orbital_rotation_index_rows_by_unoccupied(n, nocc, linkstr_index) ==
    LET tab == IF linkstr_index = NoLinkIndex THEN gen_linkstr_index(n, nocc)
               ELSE linkstr_index
        dim_diag == comb(n - 1, nocc - 1)
        dim_off_diag == comb(n - 1, nocc)
    IN  gen_orbital_rotation_index_in_place(
            n, nocc, tab, Empty2(n, dim_diag), Empty2(n, dim_off_diag),
            Empty4(n, dim_off_diag, n - nocc))

\* fci.py 295-335
gen_orbital_rotation_index(n, nocc, linkstr_index) ==
    LET tab == IF linkstr_index = NoLinkIndex THEN gen_linkstr_index(n, nocc)
               ELSE linkstr_index
        dim_diag == comb(n - 1, nocc - 1)
        dim_off_diag == comb(n - 1, nocc)
        diag_strings == Empty2(n, dim_diag)
        off_diag_strings == Empty2(n, dim_off_diag)
        off_diag_index == Empty4(n, dim_off_diag, nocc)
    IN  gen_orbital_rotation_index_in_place(
            n, nocc, tab, diag_strings, off_diag_strings, off_diag_index)

\* ------------------------------------- pyscf direct_nosym.contract_1e
\* sum over a, i of f1e[a,i] E_ai applied to fcivec, by the link tables
contract_1e(f1e, fcivec, n, ne, link_index) ==
    LET na == num_strings(n, ne[1])
        nb == num_strings(n, ne[2])
        ea == LinkEntries(link_index[1])
        eb == LinkEntries(link_index[2])
        ci0 == Reshape2(fcivec.data, na, nb)
        ci1 == [x \in Grid(na, nb) |->
                  CAdd(CSum({e \in ea : e[4] = x[1]},
                            LAMBDA e : CScale(e[5], CMul(f1e.data[<<e[2], e[3]>>],
                                                          ci0[<<e[1], x[2]>>]))),
                       CSum({e \in eb : e[4] = x[2]},
                            LAMBDA e : CScale(e[5], CMul(f1e.data[<<e[2], e[3]>>],
                                                          ci0[<<x[1], e[1]>>]))))]
    IN  IF Len(fcivec.data) # na * nb
        THEN Raised("ValueError")
        ELSE Returned([dtype |-> "float", den |-> f1e.den * fcivec.den,
                       data |-> Flatten(ci1, na, nb)])

\* ndarray.real and ndarray.imag: float arrays
RealPart(a) == [dtype |-> "float", den |-> a.den, data |-> [x \in DOMAIN a.data |-> CReal(a.data[x])]]
ImagPart(a) == [dtype |-> "float", den |-> a.den, data |-> [x \in DOMAIN a.data |-> CImag(a.data[x])]]

\* one_body_tensor.T.conj()
ConjTranspose(m) ==
    [dtype |-> m.dtype, den |-> m.den,
     data |-> [x \in DOMAIN m.data |-> CConj(m.data[<<x[2], x[1]>>])]]

\* mutant: the imaginary-imaginary contraction is added, not subtracted
FourContractions_adds_imag_imag(m, v, n, ne, link_index) ==
    LET rr == contract_1e(RealPart(m), RealPart(v), n, ne, link_index)
        ir == contract_1e(ImagPart(m), RealPart(v), n, ne, link_index)
        ri == contract_1e(RealPart(m), ImagPart(v), n, ne, link_index)
        ii == contract_1e(ImagPart(m), ImagPart(v), n, ne, link_index)
    IN  IF rr.status # "ok" THEN rr
        ELSE Returned([dtype |-> "complex", den |-> rr.array.den,
                       data |-> [k \in DOMAIN rr.array.data |->
                                   CAdd(CAdd(CAdd(rr.array.data[k],
                                                  CTimesI(ir.array.data[k])),
                                             CTimesI(ri.array.data[k])),
                                        ii.array.data[k])]])

\* the four real contractions and their recombination (fci.py 117-129):
\* rr + i*ir + i*ri - ii, as a complex array
FourContractions(m, v, n, ne, link_index) ==
    LET rr == contract_1e(RealPart(m), RealPart(v), n, ne, link_index)
        ir == contract_1e(ImagPart(m), RealPart(v), n, ne, link_index)
        ri == contract_1e(RealPart(m), ImagPart(v), n, ne, link_index)
        ii == contract_1e(ImagPart(m), ImagPart(v), n, ne, link_index)
    IN  IF rr.status # "ok" THEN rr
        ELSE Returned([dtype |-> "complex", den |-> rr.array.den,
                       data |-> [k \in DOMAIN rr.array.data |->
                                   CSub(CAdd(CAdd(rr.array.data[k],
                                                  CTimesI(ir.array.data[k])),
                                             CTimesI(ri.array.data[k])),
                                        ii.array.data[k])]])

\* one_body_tensor_to_linop.matvec (fci.py 116-129)
one_body_matvec(one_body_tensor, v, n, ne, link_index) ==
    FourContractions(one_body_tensor, v, n, ne, link_index)

\* mutant: the adjoint uses the transpose without the conjugate
one_body_rmatvec_transpose_only(one_body_tensor, v, n, ne, link_index) ==
    LET one_body_tensor_T ==
            [dtype |-> one_body_tensor.dtype, den |-> one_body_tensor.den,
             data |-> [x \in DOMAIN one_body_tensor.data |->
                         one_body_tensor.data[<<x[2], x[1]>>]]]
    IN  FourContractions(one_body_tensor_T, v, n, ne, link_index)

\* one_body_tensor_to_linop.rmatvec (fci.py 131-145)
one_body_rmatvec(one_body_tensor, v, n, ne, link_index) ==
    LET one_body_tensor_H == ConjTranspose(one_body_tensor)
    IN  FourContractions(one_body_tensor_H, v, n, ne, link_index)

\* ------------------------------------- pyscf direct_nosym.absorb_h1e
\* h2e = eri + (delta_pq f1e[r,s] + delta_rs f1e[p,q]) with
\* f1e = (h1e - 0.5 sum_i eri[j,i,i,k]) / nelec, all times fac = 0.5: the
\* numerators over 4 * nelec.  The in-place additions write f1e into a
\* copy of eri; with a complex h1e and a float eri the outcome depends on
\* the pyscf release (promoted copy, or a casting error): promotes says which.
absorb_h1e(h1e, eri, n, ne, promotes) ==
    LET N == ne[1] + ne[2]
        F2 == [jk \in Orbs(n) \X Orbs(n) |->
                 CSub(CScale(2, h1e.data[jk]),
                      CSum(Orbs(n), LAMBDA i : eri.data[<<jk[1], i, i, jk[2]>>]))]
        h2e == [x \in Idx4(n) |->
                  CAdd(CScale(2 * N, eri.data[x]),
                       CAdd(IF x[1] = x[2] THEN F2[<<x[3], x[4]>>] ELSE CZero,
                            IF x[3] = x[4] THEN F2[<<x[1], x[2]>>] ELSE CZero))]
    IN  IF ~CanCastInPlace(h1e.dtype, eri.dtype) /\ ~promotes
        THEN Raised("UFuncTypeError")
        ELSE Returned([dtype |-> ResultType(h1e.dtype, eri.dtype),
                       den |-> 4 * N * h1e.den * eri.den,
                       data |-> h2e])

\* ------------------------------------------ tables built and tables used
\* what a routine does about its link tables or occupation lists: how many
\* it constructs itself, and the pair it then works with
NoTables == [built |-> 0, used |-> <<>>]

\* contract_2e (fci.py 38-42), and pyscf's contract_1e likewise: the tables
\* are generated only when link_index is None
link_index_tables(n, ne, link_index) ==
    LET nab == SplitNelec(ne)
    IN  IF link_index = NoLinkIndex
        THEN [built |-> 2,
              used |-> <<gen_linkstr_index(n, nab[1]), gen_linkstr_index(n, nab[2])>>]
        ELSE [built |-> 0, used |-> link_index]

\* contract_num_op_sum (fci.py 164-171) and contract_diag_coulomb
\* (fci.py 236-243): a list is generated only when the argument is None
occupations_tables(n, ne, occupations_a, occupations_b) ==
    [built |-> (IF occupations_a = NoOccupations THEN 1 ELSE 0)
                + (IF occupations_b = NoOccupations THEN 1 ELSE 0),
     used |-> <<IF occupations_a = NoOccupations THEN gen_occslst(n, ne[1])
                ELSE occupations_a,
                IF occupations_b = NoOccupations THEN gen_occslst(n, ne[2])
                ELSE occupations_b>>]

\* gen_orbital_rotation_index (fci.py 316-317)
linkstr_index_tables(n, nocc, linkstr_index) ==
    IF linkstr_index = NoLinkIndex
    THEN [built |-> 1, used |-> <<gen_linkstr_index(n, nocc)>>]
    ELSE [built |-> 0, used |-> <<linkstr_index>>]

\* ---------------------------------------------------------- adapters
NoLinop ==
    [kind |-> "none", shape |-> <<0, 0>>, dtype |-> "none", norb |-> 0, nelec |-> <<0, 0>>,
     tensor |-> NoArray, tensor2 |-> NoArray,
     link_index |-> NoLinkIndex, occupations_a |-> NoOccupations,
     occupations_b |-> NoOccupations, rmatvec |-> "none"]

\* fci.py 74-93
get_hamiltonian_linop(one_body_tensor, two_body_tensor, n, ne, promotes) ==
    LET n_alpha == ne[1]
        n_beta == ne[2]
        linkstr_index_a == gen_linkstr_index(n, n_alpha)
        linkstr_index_b == gen_linkstr_index(n, n_beta)
        link_index == <<linkstr_index_a, linkstr_index_b>>
        two_body == absorb_h1e(one_body_tensor, two_body_tensor, n, ne, promotes)
        dim == get_dimension(n, ne)
    IN  IF two_body.status # "ok"
        THEN [linop |-> NoLinop, ret |-> two_body]
        ELSE [linop |-> [NoLinop EXCEPT
                            !.kind = "hamiltonian", !.shape = <<dim, dim>>,
                            !.dtype = one_body_tensor.dtype,
                            !.norb = n, !.nelec = ne,
                            !.tensor = two_body.array,
                            !.link_index = link_index,
                            !.rmatvec = "matvec"],
              ret |-> Returned(NoArray)]

\* fci.py 106-149
one_body_tensor_to_linop(one_body_tensor, n, ne) ==
    LET dim == get_dimension(n, ne)
        n_alpha == ne[1]
        n_beta == ne[2]
        linkstr_index_a == gen_linkstr_index(n, n_alpha)
        linkstr_index_b == gen_linkstr_index(n, n_beta)
        link_index == <<linkstr_index_a, linkstr_index_b>>
    IN  [NoLinop EXCEPT
            !.kind = "one_body", !.shape = <<dim, dim>>, !.dtype = "complex",
            !.norb = n, !.nelec = ne, !.tensor = one_body_tensor,
            !.link_index = link_index, !.rmatvec = "rmatvec"]

\* fci.py 191-216
num_op_sum_to_linop(coeffs, n, ne) ==
    LET n_alpha == ne[1]
        n_beta == ne[2]
        dim == get_dimension(n, ne)
        occupations_a == gen_occslst(n, n_alpha)
        occupations_b == gen_occslst(n, n_beta)
    IN  [NoLinop EXCEPT
            !.kind = "num_op_sum", !.shape = <<dim, dim>>, !.dtype = coeffs.dtype,
            !.norb = n, !.nelec = ne, !.tensor = coeffs,
            !.occupations_a = occupations_a, !.occupations_b = occupations_b,
            !.rmatvec = "matvec"]

\* mutant: matvec does not pass mat_alpha_beta on
diag_coulomb_to_linop_drops_alpha_beta(mat, n, ne, mat_alpha_beta) ==
    LET n_alpha == ne[1]
        n_beta == ne[2]
        dim == comb(n, n_alpha) * comb(n, n_beta)
        occupations_a == gen_occslst(n, n_alpha)
        occupations_b == gen_occslst(n, n_beta)
    IN  [NoLinop EXCEPT
            !.kind = "diag_coulomb", !.shape = <<dim, dim>>, !.dtype = mat.dtype,
            !.norb = n, !.nelec = ne, !.tensor = mat, !.tensor2 = NoArray,
            !.occupations_a = occupations_a, !.occupations_b = occupations_b,
            !.rmatvec = "matvec"]

\* fci.py 262-292
diag_coulomb_to_linop(mat, n, ne, mat_alpha_beta) ==
    LET n_alpha == ne[1]
        n_beta == ne[2]
        dim == get_dimension(n, ne)
        occupations_a == gen_occslst(n, n_alpha)
        occupations_b == gen_occslst(n, n_beta)
    IN  [NoLinop EXCEPT
            !.kind = "diag_coulomb", !.shape = <<dim, dim>>, !.dtype = mat.dtype,
            !.norb = n, !.nelec = ne, !.tensor = mat, !.tensor2 = mat_alpha_beta,
            !.occupations_a = occupations_a, !.occupations_b = occupations_b,
            !.rmatvec = "matvec"]

\* the function an adapter was given as matvec, applied to v: the outcome
\* and the captured mat as the call leaves it
linop_matvec(lo, v) ==
    CASE lo.kind = "hamiltonian" ->
            [mat |-> lo.tensor,
             ret |-> contract_2e(lo.tensor, v, lo.norb, lo.nelec, lo.link_index)]
      [] lo.kind = "one_body" ->
            [mat |-> lo.tensor,
             ret |-> one_body_matvec(lo.tensor, v, lo.norb, lo.nelec, lo.link_index)]
      [] lo.kind = "num_op_sum" ->
            [mat |-> lo.tensor,
             ret |-> contract_num_op_sum(v, lo.tensor, lo.norb, lo.nelec,
                                         lo.occupations_a, lo.occupations_b)]
      [] lo.kind = "diag_coulomb" ->
            contract_diag_coulomb(v, lo.tensor, lo.norb, lo.nelec, lo.tensor2,
                                  lo.occupations_a, lo.occupations_b)

\* mutant: the Hamiltonian's matvec calls contract_2e without link_index
linop_matvec_tables_hamiltonian_rebuilds(lo) ==
    CASE lo.kind = "hamiltonian" -> link_index_tables(lo.norb, lo.nelec, NoLinkIndex)
      [] lo.kind = "one_body" -> link_index_tables(lo.norb, lo.nelec, lo.link_index)
      [] OTHER -> occupations_tables(lo.norb, lo.nelec, lo.occupations_a, lo.occupations_b)

\* the tables the matvec (and rmatvec) closure of an adapter hands to the
\* routine it calls (fci.py 89, 118, 210-211, 286-287)
linop_matvec_tables(lo) ==
    CASE lo.kind = "hamiltonian" -> link_index_tables(lo.norb, lo.nelec, lo.link_index)
      [] lo.kind = "one_body" -> link_index_tables(lo.norb, lo.nelec, lo.link_index)
      [] OTHER -> occupations_tables(lo.norb, lo.nelec, lo.occupations_a, lo.occupations_b)

\* the tables an adapter's constructor builds and captures (fci.py 82-84,
\* 112-114, 197-202, 272-277)
constructor_tables(n, ne, kind) ==
    IF kind \in {"hamiltonian", "one_body"}
    THEN link_index_tables(n, ne, NoLinkIndex)
    ELSE occupations_tables(n, ne, NoOccupations, NoOccupations)

\* the function an adapter was given as rmatvec
linop_rmatvec(lo, v) ==
    IF lo.rmatvec = "matvec" THEN linop_matvec(lo, v)
    ELSE [mat |-> lo.tensor,
          ret |-> one_body_rmatvec(lo.tensor, v, lo.norb, lo.nelec, lo.link_index)]

\* scipy's LinearOperator.matvec / rmatvec: the length of the vector is
\* checked against the declared shape before the function is called
LinearOperatorApply(lo, which, v) ==
    IF Len(v.data) # lo.shape[IF which = "matvec" THEN 2 ELSE 1]
    THEN [mat |-> lo.tensor, ret |-> Raised("ValueError")]
    ELSE IF which = "matvec" THEN linop_matvec(lo, v) ELSE linop_rmatvec(lo, v)

\* the tables of a call through LinearOperator: none when the length check
\* stops the call before the closure runs
LinearOperatorApplyTables(lo, which, v) ==
    IF Len(v.data) # lo.shape[IF which = "matvec" THEN 2 ELSE 1]
    THEN NoTables
    ELSE linop_matvec_tables(lo)

\* ----------------------------------------------- reference operators
\* E_pq = a+_p a_q summed over both spins, applied determinant by
\* determinant to a vector v given as a function of <<A, B>> addresses:
\* the amplitude arriving at <<A, B>> comes from the one determinant whose
\* string has q in place of p.
ExciteString(p, q, S) == (S \ {q}) \cup {p}

CanExcite(p, q, S) == q \in S /\ (p = q \/ p \notin S)

AddrOf(strs, S) == CHOOSE k \in DOMAIN strs : strs[k] = S

ApplyE(p, q, v, strsa, strsb) ==
    [AB \in DOMAIN v |->
        LET fromA == {k \in DOMAIN strsa :
                        CanExcite(p, q, strsa[k]) /\ ExciteString(p, q, strsa[k]) = strsa[AB[1]]}
            fromB == {k \in DOMAIN strsb :
                        CanExcite(p, q, strsb[k]) /\ ExciteString(p, q, strsb[k]) = strsb[AB[2]]}
        IN  CAdd(CSum(fromA, LAMBDA k : CScale(cre_des_sign(p, q, strsa[k]), v[<<k, AB[2]>>])),
                 CSum(fromB, LAMBDA k : CScale(cre_des_sign(p, q, strsb[k]), v[<<AB[1], k>>])))]

\* sum over p, q, r, s of V[p,q,r,s] E_pq E_rs applied to the flat vector
RefTwoBody(V, data, n, ab) ==
    LET strsa == make_strings(n, ab[1])
        strsb == make_strings(n, ab[2])
        nb == Cardinality(DOMAIN strsb)
        v == [AB \in (DOMAIN strsa) \X (DOMAIN strsb) |-> data[AB[1] * nb + AB[2] + 1]]
        Ers == [rs \in Orbs(n) \X Orbs(n) |-> ApplyE(rs[1], rs[2], v, strsa, strsb)]
        \* entries of V that are zero contribute nothing to the sum
        NZ == {x \in Idx4(n) : V[x] # CZero}
        term == [x \in NZ |-> ApplyE(x[1], x[2], Ers[<<x[3], x[4]>>], strsa, strsb)]
    IN  [k \in 1 .. Len(data) |->
            CSum(Orbs(n) \X Orbs(n), LAMBDA pq :
                CSum(Orbs(n) \X Orbs(n), LAMBDA rs :
                    LET x == <<pq[1], pq[2], rs[1], rs[2]>>
                    IN  IF x \in NZ
                        THEN CMul(V[x], term[x][<<(k - 1) \div nb, (k - 1) % nb>>])
                        ELSE CZero))]

\* ------------------------------------------------------------ inputs
MaxNorbDim == 6
MaxNorbRotation == 4

Sectors(n) == {ab \in (0 .. n) \X (0 .. n) : comb(n, ab[1]) * comb(n, ab[2]) <= MaxDim}

Dim(n, ab) == comb(n, ab[1]) * comb(n, ab[2])

FloatArray(d) == [dtype |-> "float", den |-> 1, data |-> d]
ComplexArray(d) == [dtype |-> "complex", den |-> 1, data |-> d]

\* vectors of length L: the unit vectors, and two dense ones with distinct
\* entries, one float and one complex
UnitVecs(L) == {FloatArray([k \in 1 .. L |-> IF k = j THEN COne ELSE CZero]) : j \in 1 .. L}
RampVec(L) == FloatArray([k \in 1 .. L |-> <<k, 0>>])
DenseVecs(L) == {RampVec(L), ComplexArray([k \in 1 .. L |-> <<k, L + 2 - 2 * k>>])}

\* vectors offered to a routine whose space has dimension d: the right
\* length, and the two neighbouring wrong lengths
VecsFor(d) == UnitVecs(d) \cup DenseVecs(d) \cup {RampVec(d - 1), RampVec(d + 1)}

\* the same without the unit vectors
DenseVecsFor(d) == DenseVecs(d) \cup {RampVec(d - 1), RampVec(d + 1)}

\* the families with one member per tensor entry are drawn below the
\* largest orbital count only
BelowMaxNorb(n) == n < MaxNorb

EriUnits(n) ==
    {FloatArray([x \in Idx4(n) |-> IF x = y THEN COne ELSE CZero]) : y \in Idx4(n)}

EriDense(n) ==
    {FloatArray([x \in Idx4(n) |-> <<((x[1] + 2 * x[2] + 3 * x[3] + 5 * x[4]) % 4) - 1, 0>>]),
     ComplexArray([x \in Idx4(n) |-> <<(x[1] + 2 * x[3]) % 3, ((x[2] + 2 * x[4]) % 3) - 1>>])}

\* the two-body tensors of all zeros, float and complex
EriZero(n) ==
    {FloatArray([x \in Idx4(n) |-> CZero]), ComplexArray([x \in Idx4(n) |-> CZero])}

Idx2(n) == Orbs(n) \X Orbs(n)

CoeffSet(n) ==
    {FloatArray([i \in Orbs(n) |-> IF i = j THEN COne ELSE CZero]) : j \in Orbs(n)}
    \cup {FloatArray([i \in Orbs(n) |-> <<2 * i - 3, 0>>])}

\* real symmetric matrices
SymUnits(n) ==
    {FloatArray([x \in Idx2(n) |-> IF x = ij \/ x = <<ij[2], ij[1]>> THEN COne ELSE CZero])
        : ij \in {y \in Idx2(n) : y[1] <= y[2]}}
SymDense(n) == FloatArray([x \in Idx2(n) |-> <<(x[1] + 1) * (x[2] + 1), 0>>])
SymDense2(n) == FloatArray([x \in Idx2(n) |-> <<x[1] + x[2] - 1, 0>>])

\* <<mat, mat_alpha_beta>>, NoArray for a mat_alpha_beta that is not given
MatPairs(n) ==
    ((SymUnits(n) \cup {SymDense(n)}) \X {NoArray, SymDense2(n)})
    \cup ({SymDense(n)} \X SymUnits(n))

\* one-body matrices: Hermitian ones, and single entries (not Hermitian
\* off the diagonal)
HermitianSet(n) ==
    SymUnits(n)
    \cup {ComplexArray([x \in Idx2(n) |->
              IF x = ij THEN <<0, 1>> ELSE IF x = <<ij[2], ij[1]>> THEN <<0, -1>> ELSE CZero])
            : ij \in {y \in Idx2(n) : y[1] < y[2]}}
    \cup {ComplexArray([x \in Idx2(n) |-> <<x[1] + x[2] + 1, x[1] - x[2]>>])}

SingleEntries(n) ==
    {FloatArray([x \in Idx2(n) |-> IF x = ij THEN COne ELSE CZero]) : ij \in Idx2(n)}
    \cup {ComplexArray([x \in Idx2(n) |-> IF x = ij THEN <<1, 2>> ELSE CZero]) : ij \in Idx2(n)}

\* two dense complex matrices, the first Hermitian, the second not
OneBodyDense(n) ==
    {ComplexArray([x \in Idx2(n) |-> <<x[1] + x[2] + 1, x[1] - x[2]>>]),
     ComplexArray([x \in Idx2(n) |-> <<x[1] + 2 * x[2], x[1] - 1>>])}

IsHermitian(m) == \A x \in DOMAIN m.data : m.data[x] = CConj(m.data[<<x[2], x[1]>>])

NoOperand ==
    [kind |-> "none", eri |-> NoArray, coeffs |-> NoArray, mat |-> NoArray,
     mat_alpha_beta |-> NoArray, one_body_tensor |-> NoArray, two_body_tensor |-> NoArray,
     nocc |-> 0]

\* ------------------------------------------------- concurrent callers
NumCallers == 2

Callers == 1 .. NumCallers

\* a caller that is not inside a forward-apply
IdleCall == [pc |-> "idle", v |-> NoArray, private |-> FALSE, mat |-> NoArray, ret |-> NoRet]

NoCalls == [t \in Callers |-> IdleCall]

\* ------------------------------------------------- successive calls
\* nothing recorded: no call made, no array remembered
NoHistory ==
    [applied |-> 0, called |-> 0, mat |-> NoArray, mat_alpha_beta |-> NoArray,
     vec |-> NoArray, first |-> NoRet]

Fresh ==
    /\ linop = NoLinop
    /\ op = "none"
    /\ ret = NoRet
    /\ tables = NoTables
    /\ calls = NoCalls
    /\ history = NoHistory

InitDim ==
    /\ norb \in 0 .. MaxNorbDim
    /\ nelec \in (-1 .. norb + 1) \X (-1 .. norb + 1)
    /\ operand = NoOperand
    /\ vec = FloatArray(<<>>)
    /\ Fresh

InitEri ==
    /\ norb \in 1 .. MaxNorb
    /\ nelec \in Sectors(norb)
    /\ \E eri \in (IF BelowMaxNorb(norb) THEN EriUnits(norb) ELSE {})
                    \cup EriDense(norb) \cup EriZero(norb) :
        /\ operand = [NoOperand EXCEPT !.kind = "eri", !.eri = eri]
        /\ vec \in IF eri \in EriDense(norb) THEN DenseVecsFor(Dim(norb, nelec))
                    ELSE DenseVecs(Dim(norb, nelec))
    /\ Fresh

\* contract_2e with nelec given as the single total particle number
InitEriTotal ==
    /\ norb \in 1 .. MaxNorb
    /\ nelec \in {<<n>> : n \in {m \in 0 .. 2 * norb :
                                    Dim(norb, <<m - (m \div 2), m \div 2>>) <= MaxDim}}
    /\ \E eri \in EriDense(norb) :
        /\ operand = [NoOperand EXCEPT !.kind = "eri", !.eri = eri]
        /\ vec \in DenseVecs(Dim(norb, <<nelec[1] - (nelec[1] \div 2), nelec[1] \div 2>>))
    /\ Fresh

InitCoeffs ==
    /\ norb \in 1 .. MaxNorb
    /\ nelec \in Sectors(norb)
    /\ \E c \in CoeffSet(norb) : operand = [NoOperand EXCEPT !.kind = "coeffs", !.coeffs = c]
    /\ vec \in VecsFor(Dim(norb, nelec))
    /\ Fresh

InitMat ==
    /\ norb \in 1 .. MaxNorb
    /\ nelec \in Sectors(norb)
    /\ \E mm \in IF BelowMaxNorb(norb) THEN MatPairs(norb)
                   ELSE {SymDense(norb)} \X {NoArray, SymDense2(norb)} :
        operand = [NoOperand EXCEPT !.kind = "mat", !.mat = mm[1], !.mat_alpha_beta = mm[2]]
    /\ vec \in VecsFor(Dim(norb, nelec))
    /\ Fresh

InitOneBody ==
    /\ norb \in 1 .. MaxNorb
    /\ nelec \in Sectors(norb)
    /\ \E m \in IF BelowMaxNorb(norb) THEN HermitianSet(norb) \cup SingleEntries(norb)
                  ELSE OneBodyDense(norb) :
        /\ operand = [NoOperand EXCEPT !.kind = "one_body", !.one_body_tensor = m]
        /\ vec \in IF m \in HermitianSet(norb) THEN DenseVecsFor(Dim(norb, nelec))
                    ELSE DenseVecs(Dim(norb, nelec))
    /\ Fresh

InitHamiltonian ==
    /\ norb \in 1 .. MaxNorb
    /\ nelec \in {ab \in Sectors(norb) : ab[1] + ab[2] >= 1}
    /\ \E h1 \in {SymDense2(norb), ComplexArray([x \in Idx2(norb) |-> <<x[1] + x[2] + 1, x[1] - x[2]>>])},
          h2 \in EriDense(norb) :
        operand = [NoOperand EXCEPT !.kind = "hamiltonian",
                                    !.one_body_tensor = h1, !.two_body_tensor = h2]
    /\ vec \in DenseVecsFor(Dim(norb, nelec))
    /\ Fresh

\* a spin sector (norb, nocc) given to gen_orbital_rotation_index
InitRotation ==
    /\ norb \in 1 .. MaxNorbRotation
    /\ \E nocc \in 0 .. norb : operand = [NoOperand EXCEPT !.kind = "rotation", !.nocc = nocc]
    /\ nelec = <<0, 0>>
    /\ vec = FloatArray(<<>>)
    /\ Fresh

Init ==
    \/ InitDim \/ InitEri \/ InitEriTotal \/ InitCoeffs \/ InitMat \/ InitOneBody \/ InitHamiltonian
    \/ InitRotation

\* ----------------------------------------------------------- actions
\* the caller's mat and every adapter that captured it are one array
WithMat(m) ==
    /\ operand' = [operand EXCEPT !.mat = m]
    /\ linop' = IF linop.kind = "diag_coulomb" THEN [linop EXCEPT !.tensor = m] ELSE linop

Call_get_dimension ==
    /\ operand.kind = "none"
    /\ op' = "get_dimension"
    /\ ret' = ReturnedNumber(get_dimension(norb, nelec))
    /\ tables' = NoTables
    /\ UNCHANGED <<norb, nelec, operand, vec, linop, calls, history>>

Call_contract_2e ==
    /\ operand.kind = "eri"
    /\ op' = "contract_2e"
    /\ ret' = contract_2e(operand.eri, vec, norb, nelec, NoLinkIndex)
    /\ tables' = link_index_tables(norb, nelec, NoLinkIndex)
    /\ UNCHANGED <<norb, nelec, operand, vec, linop, calls, history>>

Call_contract_num_op_sum ==
    /\ operand.kind = "coeffs"
    /\ op' = "contract_num_op_sum"
    /\ ret' = contract_num_op_sum(vec, operand.coeffs, norb, nelec,
                                   NoOccupations, NoOccupations)
    /\ tables' = occupations_tables(norb, nelec, NoOccupations, NoOccupations)
    /\ UNCHANGED <<norb, nelec, operand, vec, linop, calls, history>>

Call_contract_diag_coulomb ==
    /\ operand.kind = "mat"
    /\ LET r == contract_diag_coulomb(vec, operand.mat, norb, nelec, operand.mat_alpha_beta,
                                       NoOccupations, NoOccupations)
       IN  /\ ret' = r.ret
           /\ WithMat(r.mat)
    /\ op' = "contract_diag_coulomb"
    /\ tables' = occupations_tables(norb, nelec, NoOccupations, NoOccupations)
    /\ UNCHANGED <<norb, nelec, vec, calls, history>>

\* the parameters a call of contract_diag_coulomb can bind (fci.py 219-228);
\* a keyword outside them makes Python raise TypeError before the body runs
contract_diag_coulomb_parameters ==
    {"vec", "mat", "norb", "nelec", "mat_alpha_beta", "occupations_a", "occupations_b"}

\* contract_diag_coulomb(state, mat, norb=norb, nelec=nelec,
\*     mat_alpha_beta=mat_alpha_beta, z_representation=True)
Call_contract_diag_coulomb_z_representation ==
    /\ operand.kind = "mat"
    /\ LET keywords == {"norb", "nelec", "mat_alpha_beta", "z_representation"}
           r == contract_diag_coulomb(vec, operand.mat, norb, nelec, operand.mat_alpha_beta,
                                      NoOccupations, NoOccupations)
       IN  IF keywords \subseteq contract_diag_coulomb_parameters
           THEN /\ ret' = r.ret
                /\ WithMat(r.mat)
                /\ tables' = occupations_tables(norb, nelec, NoOccupations, NoOccupations)
           ELSE /\ ret' = Raised("TypeError")
                /\ tables' = NoTables
                /\ UNCHANGED <<operand, linop>>
    /\ op' = "contract_diag_coulomb_z_representation"
    /\ UNCHANGED <<norb, nelec, vec, calls, history>>

\* with the default linkstr_index and with a table the caller built
Call_gen_orbital_rotation_index ==
    /\ operand.kind = "rotation"
    /\ \E linkstr_index \in {NoLinkIndex, gen_linkstr_index(norb, operand.nocc)} :
            /\ ret' = gen_orbital_rotation_index(norb, operand.nocc, linkstr_index)
            /\ tables' = linkstr_index_tables(norb, operand.nocc, linkstr_index)
    /\ op' = "gen_orbital_rotation_index"
    /\ UNCHANGED <<norb, nelec, operand, vec, linop, calls, history>>

Build_get_hamiltonian_linop ==
    /\ operand.kind = "hamiltonian"
    /\ \E promotes \in BOOLEAN :
        LET r == get_hamiltonian_linop(operand.one_body_tensor, operand.two_body_tensor,
                                       norb, nelec, promotes)
        IN  /\ linop' = r.linop
            /\ ret' = r.ret
    /\ op' = "get_hamiltonian_linop"
    /\ tables' = constructor_tables(norb, nelec, "hamiltonian")
    /\ UNCHANGED <<norb, nelec, operand, vec, calls, history>>

Build_one_body_tensor_to_linop ==
    /\ operand.kind = "one_body"
    /\ linop' = one_body_tensor_to_linop(operand.one_body_tensor, norb, nelec)
    /\ op' = "one_body_tensor_to_linop"
    /\ ret' = Returned(NoArray)
    /\ tables' = constructor_tables(norb, nelec, "one_body")
    /\ UNCHANGED <<norb, nelec, operand, vec, calls, history>>

Build_num_op_sum_to_linop ==
    /\ operand.kind = "coeffs"
    /\ linop' = num_op_sum_to_linop(operand.coeffs, norb, nelec)
    /\ op' = "num_op_sum_to_linop"
    /\ ret' = Returned(NoArray)
    /\ tables' = constructor_tables(norb, nelec, "num_op_sum")
    /\ UNCHANGED <<norb, nelec, operand, vec, calls, history>>

Build_diag_coulomb_to_linop ==
    /\ operand.kind = "mat"
    /\ linop' = diag_coulomb_to_linop(operand.mat, norb, nelec, operand.mat_alpha_beta)
    /\ op' = "diag_coulomb_to_linop"
    /\ ret' = Returned(NoArray)
    /\ tables' = constructor_tables(norb, nelec, "diag_coulomb")
    /\ UNCHANGED <<norb, nelec, operand, vec, calls, history>>

Apply(which) ==
    /\ linop.kind # "none"
    /\ LET r == LinearOperatorApply(linop, which, vec)
       IN  /\ ret' = r.ret
           /\ IF linop.kind = "diag_coulomb"
              THEN WithMat(r.mat)
              ELSE UNCHANGED <<operand, linop>>
    /\ op' = which
    /\ tables' = LinearOperatorApplyTables(linop, which, vec)
    /\ UNCHANGED <<norb, nelec, vec, calls, history>>

Matvec == Apply("matvec")

Rmatvec == Apply("rmatvec")

\* ------------------------------------- concurrent forward-applies
\* Several callers apply one adapter, built once, at the same time.  A
\* call of the diag_coulomb adapter runs contract_diag_coulomb statement by
\* statement; the other closures only read what they captured and are one
\* step.  Python threads interleave between the statements.
MaxNorbConcurrent == 2

\* the operator tensors the adapters are built from
ConcurrentOperands(n) ==
    {[NoOperand EXCEPT !.kind = "mat", !.mat = SymDense(n)],
     [NoOperand EXCEPT !.kind = "mat", !.mat = SymDense(n), !.mat_alpha_beta = SymDense2(n)],
     [NoOperand EXCEPT !.kind = "coeffs",
                       !.coeffs = FloatArray([i \in Orbs(n) |-> <<2 * i - 3, 0>>])],
     [NoOperand EXCEPT !.kind = "one_body",
                       !.one_body_tensor =
                           ComplexArray([x \in Idx2(n) |-> <<x[1] + x[2] + 1, x[1] - x[2]>>])]}
    \cup {[NoOperand EXCEPT !.kind = "hamiltonian", !.one_body_tensor = SymDense2(n),
                            !.two_body_tensor = eri] : eri \in EriDense(n)}

\* the adapter its constructor returns for the operand
BuiltFrom(x, n, ne) ==
    CASE x.kind = "mat" -> diag_coulomb_to_linop(x.mat, n, ne, x.mat_alpha_beta)
      [] x.kind = "coeffs" -> num_op_sum_to_linop(x.coeffs, n, ne)
      [] x.kind = "one_body" -> one_body_tensor_to_linop(x.one_body_tensor, n, ne)
      [] x.kind = "hamiltonian" ->
            get_hamiltonian_linop(x.one_body_tensor, x.two_body_tensor, n, ne, TRUE).linop

InitConcurrent ==
    /\ norb \in 1 .. MaxNorbConcurrent
    /\ nelec \in Sectors(norb)
    /\ operand \in {x \in ConcurrentOperands(norb) :
                        x.kind = "hamiltonian" => nelec[1] + nelec[2] >= 1}
    /\ linop = BuiltFrom(operand, norb, nelec)
    /\ vec = FloatArray(<<>>)
    /\ op = "none"
    /\ ret = NoRet
    /\ tables = NoTables
    /\ calls = NoCalls
    /\ history = NoHistory

\* linop.matvec(v): scipy checks the length, then the closure is entered
Enter(t) ==
    /\ calls[t].pc \in {"idle", "returned"}
    /\ \E v \in DenseVecs(linop.shape[2]) :
            calls' = [calls EXCEPT ![t] = [IdleCall EXCEPT !.pc = "entered", !.v = v]]
    /\ UNCHANGED <<norb, nelec, operand, vec, linop, op, ret, tables, history>>

\* mat = mat.copy() (fci.py 245)
CopyMat(t) ==
    /\ linop.kind = "diag_coulomb"
    /\ calls[t].pc = "entered"
    /\ LET local == mat_copy(linop.tensor)
       IN  calls' = [calls EXCEPT ![t].pc = "copied",
                                  ![t].private = local.private,
                                  ![t].mat = local.mat]
    /\ UNCHANGED <<norb, nelec, operand, vec, linop, op, ret, tables, history>>

\* mat[np.diag_indices(norb)] *= 0.5 (fci.py 246), on the array the local
\* name refers to
HalveMat(t) ==
    /\ calls[t].pc = "copied"
    /\ IF calls[t].private
       THEN /\ calls' = [calls EXCEPT ![t].pc = "halved",
                                       ![t].mat = HalveDiagonal(calls[t].mat)]
            /\ UNCHANGED <<operand, linop>>
       ELSE /\ calls' = [calls EXCEPT ![t].pc = "halved"]
            /\ WithMat(HalveDiagonal(linop.tensor))
    /\ UNCHANGED <<norb, nelec, vec, op, ret, tables, history>>

\* fci.py 247-259; mat_alpha_beta refers to the captured array given at
\* construction, or to the captured mat when none was given (fci.py 230-231)
Kernel(t) ==
    /\ calls[t].pc = "halved"
    /\ LET local == IF calls[t].private THEN calls[t].mat ELSE linop.tensor
           mab == IF linop.tensor2 = NoArray THEN linop.tensor ELSE linop.tensor2
       IN  calls' = [calls EXCEPT
                ![t].pc = "computed",
                ![t].ret = contract_diag_coulomb_after_halving(
                               calls[t].v, local, linop.norb, linop.nelec, mab,
                               linop.occupations_a, linop.occupations_b)]
    /\ UNCHANGED <<norb, nelec, operand, vec, linop, op, ret, tables, history>>

\* the closures of the other adapters (fci.py 88-89, 116-129, 204-212)
Compute(t) ==
    /\ linop.kind # "diag_coulomb"
    /\ calls[t].pc = "entered"
    /\ calls' = [calls EXCEPT ![t].pc = "computed",
                               ![t].ret = linop_matvec(linop, calls[t].v).ret]
    /\ UNCHANGED <<norb, nelec, operand, vec, linop, op, ret, tables, history>>

\* the caller receives the result
Return(t) ==
    /\ calls[t].pc = "computed"
    /\ calls' = [calls EXCEPT ![t].pc = "returned"]
    /\ UNCHANGED <<norb, nelec, operand, vec, linop, op, ret, tables, history>>

NextConcurrent ==
    \E t \in Callers :
        \/ Enter(t)
        \/ CopyMat(t)
        \/ HalveMat(t)
        \/ Kernel(t)
        \/ Compute(t)
        \/ Return(t)

SpecConcurrent == InitConcurrent /\ [][NextConcurrent]_vars

\* ------------------------------ successive calls with the same arrays
\* A caller creates mat, mat_alpha_beta and vec once, and then calls
\* contract_diag_coulomb directly, builds one adapter and applies it
\* forward, any number of times in any order, always with these arrays.
MaxNorbRepeated == 2
MaxApplies == 3
MaxCalls == 2

\* <<mat, mat_alpha_beta>> of the successive calls
RepeatedMatPairs(n) ==
    ({SymDense(n)} \X {NoArray, SymDense2(n)}) \cup (SymUnits(n) \X {NoArray})

InitRepeated ==
    /\ norb \in 1 .. MaxNorbRepeated
    /\ nelec \in Sectors(norb)
    /\ \E mm \in RepeatedMatPairs(norb) :
        operand = [NoOperand EXCEPT !.kind = "mat", !.mat = mm[1], !.mat_alpha_beta = mm[2]]
    /\ vec \in DenseVecsFor(Dim(norb, nelec))
    /\ linop = NoLinop
    /\ op = "none"
    /\ ret = NoRet
    /\ tables = NoTables
    /\ calls = NoCalls
    /\ history = [NoHistory EXCEPT !.mat = operand.mat,
                                    !.mat_alpha_beta = operand.mat_alpha_beta,
                                    !.vec = vec]

\* contract_diag_coulomb(vec, mat, norb, nelec, mat_alpha_beta=mat_alpha_beta)
DirectCall ==
    /\ history.called < MaxCalls
    /\ LET r == contract_diag_coulomb(vec, operand.mat, norb, nelec, operand.mat_alpha_beta,
                                       NoOccupations, NoOccupations)
       IN  /\ ret' = r.ret
           /\ WithMat(r.mat)
    /\ op' = "contract_diag_coulomb"
    /\ tables' = occupations_tables(norb, nelec, NoOccupations, NoOccupations)
    /\ history' = [history EXCEPT !.called = @ + 1]
    /\ UNCHANGED <<norb, nelec, vec, calls>>

\* linop = diag_coulomb_to_linop(mat, norb, nelec, mat_alpha_beta=mat_alpha_beta)
Construct ==
    /\ linop.kind = "none"
    /\ linop' = diag_coulomb_to_linop(operand.mat, norb, nelec, operand.mat_alpha_beta)
    /\ op' = "diag_coulomb_to_linop"
    /\ ret' = Returned(NoArray)
    /\ tables' = constructor_tables(norb, nelec, "diag_coulomb")
    /\ UNCHANGED <<norb, nelec, operand, vec, calls, history>>

\* linop.matvec(vec) or linop @ vec
ForwardApply ==
    /\ linop.kind = "diag_coulomb"
    /\ history.applied < MaxApplies
    /\ LET r == LinearOperatorApply(linop, "matvec", vec)
       IN  /\ ret' = r.ret
           /\ WithMat(r.mat)
           /\ history' = [history EXCEPT !.applied = @ + 1,
                                          !.first = IF history.applied = 0 THEN r.ret ELSE @]
    /\ op' = "matvec"
    /\ tables' = LinearOperatorApplyTables(linop, "matvec", vec)
    /\ UNCHANGED <<norb, nelec, vec, calls>>

NextRepeated ==
    \/ DirectCall
    \/ Construct
    \/ ForwardApply

SpecRepeated == InitRepeated /\ [][NextRepeated]_vars

Next ==
    \/ Call_get_dimension
    \/ Call_contract_2e
    \/ Call_contract_num_op_sum
    \/ Call_contract_diag_coulomb
    \/ Call_contract_diag_coulomb_z_representation
    \/ Call_gen_orbital_rotation_index
    \/ Build_get_hamiltonian_linop
    \/ Build_one_body_tensor_to_linop
    \/ Build_num_op_sum_to_linop
    \/ Build_diag_coulomb_to_linop
    \/ Matvec
    \/ Rmatvec

Spec == Init /\ [][Next]_vars

\* ------------------------------------------------------------ claims
RightLength == Len(vec.data) = Dim(norb, SplitNelec(nelec))

ValidSector == \A k \in DOMAIN nelec : 0 <= nelec[k] /\ nelec[k] <= norb

\* the determinant <<O_alpha, O_beta>> whose amplitude is entry k of a vector
DetAt(k) ==
    LET nb == comb(norb, nelec[2])
    IN  <<make_strings(norb, nelec[1])[(k - 1) \div nb],
          make_strings(norb, nelec[2])[(k - 1) % nb]>>

IsUnitVec(v) ==
    \E j \in DOMAIN v.data : \A k \in DOMAIN v.data : v.data[k] = IF k = j THEN COne ELSE CZero

IsSymmetric(m) == \A x \in DOMAIN m.data : m.data[x] = m.data[<<x[2], x[1]>>]

\* the value part of C1: whenever contract_2e returns, the returned vector
\* is the reference operator applied to the input, with the input's length
Contract2eReturnedValue ==
    (op = "contract_2e" /\ ret.status = "ok") =>
        /\ RightLength
        /\ ret.array.data = RefTwoBody(operand.eri.data, vec.data, norb, SplitNelec(nelec))

\* C1: for every norb, sector, two-body tensor V and CI vector of length
\* C(norb,n_alpha)*C(norb,n_beta), contract_2e returns the vector obtained by
\* applying the sum over p,q,r,s of V[p,q,r,s] E_pq E_rs to the input.
C1_Contract2eIsTwoBodyOperator ==
    (op = "contract_2e" /\ RightLength) =>
        /\ ret.status = "ok"
        /\ ret.array.data = RefTwoBody(operand.eri.data, vec.data, norb, SplitNelec(nelec))

\* twice the classical diagonal-Coulomb eigenvalue of a determinant:
\* sum_{i,j in O_alpha} M[i,j] + sum_{i,j in O_beta} M[i,j]
\*   + 2 * sum_{i in O_alpha, j in O_beta} M'[i,j]
PairSum(M, O1, O2) == CSum(O1 \X O2, LAMBDA ij : M.data[ij])

TwiceCoulombEigenvalue(M, Mab, det) ==
    CAdd(CAdd(PairSum(M, det[1], det[1]), PairSum(M, det[2], det[2])),
         CScale(2, PairSum(Mab, det[1], det[2])))

\* C2: contract_diag_coulomb scales the amplitude of every determinant
\* <<O_alpha, O_beta>> by 0.5*sum_{i,j in O_alpha} M[i,j] + 0.5*sum_{i,j in
\* O_beta} M[i,j] + sum_{i in O_alpha, j in O_beta} M'[i,j] for symmetric M
\* and M', so a single-determinant vector comes back scaled by that value
\* with every other amplitude zero; M' is M itself, diagonal not halved,
\* when mat_alpha_beta is not supplied.
C2_DiagCoulombEigenvalue ==
    (op = "contract_diag_coulomb" /\ RightLength) =>
        LET M == operand.mat
            Mab == IF operand.mat_alpha_beta = NoArray THEN operand.mat
                   ELSE operand.mat_alpha_beta
        IN  (IsSymmetric(M) /\ IsSymmetric(Mab)) =>
                /\ ret.status = "ok"
                /\ Len(ret.array.data) = Len(vec.data)
                /\ \A k \in DOMAIN vec.data :
                        CScale(2, ret.array.data[k])
                            = CScale(ret.array.den,
                                     CMul(TwiceCoulombEigenvalue(M, Mab, DetAt(k)), vec.data[k]))

\* a single determinant with an orbital occupied in both spin sectors, a
\* matrix with that diagonal entry set and no mat_alpha_beta, and a
\* non-zero amplitude returned
C2_Witness ==
    /\ op = "contract_diag_coulomb" /\ RightLength /\ ret.status = "ok"
    /\ IsUnitVec(vec)
    /\ operand.mat_alpha_beta = NoArray
    /\ \E k \in DOMAIN vec.data :
        /\ vec.data[k] = COne
        /\ ret.array.data[k] # CZero
        /\ \E i \in DetAt(k)[1] \cap DetAt(k)[2] : operand.mat.data[<<i, i>>] # CZero

\* C3: contract_num_op_sum scales the amplitude of every determinant by
\* sum_{i in O_alpha} c[i] + sum_{i in O_beta} c[i] (an orbital occupied in
\* both sectors counts twice), so a single-determinant vector comes back
\* scaled by that value.
C3_NumOpSumEigenvalue ==
    (op = "contract_num_op_sum" /\ RightLength) =>
        /\ ret.status = "ok"
        /\ Len(ret.array.data) = Len(vec.data)
        /\ ret.array.den = 1
        /\ \A k \in DOMAIN vec.data :
                ret.array.data[k]
                    = CMul(CAdd(CSum(DetAt(k)[1], LAMBDA i : operand.coeffs.data[i]),
                                CSum(DetAt(k)[2], LAMBDA i : operand.coeffs.data[i])),
                           vec.data[k])

\* a single determinant with an orbital in both sectors whose coefficient
\* is not zero, in a sector with different alpha and beta dimensions
C3_Witness ==
    /\ op = "contract_num_op_sum" /\ RightLength /\ ret.status = "ok"
    /\ IsUnitVec(vec)
    /\ comb(norb, nelec[1]) > 1 /\ comb(norb, nelec[2]) > 1
    /\ \E k \in DOMAIN vec.data :
        /\ vec.data[k] = COne
        /\ ret.array.data[k] # CZero
        /\ \E i \in DetAt(k)[1] \cap DetAt(k)[2] : operand.coeffs.data[i] # CZero

\* C4: the forward-apply of diag_coulomb_to_linop and of
\* num_op_sum_to_linop on a vector of length get_dimension(norb, nelec)
\* equals the direct routine called on the same operator data without
\* pre-built occupation lists.
C4_AdapterEqualsDirect ==
    (op = "matvec" /\ RightLength) =>
        /\ linop.kind = "diag_coulomb" =>
                ret = contract_diag_coulomb(vec, operand.mat, norb, nelec,
                                            operand.mat_alpha_beta,
                                            NoOccupations, NoOccupations).ret
        /\ linop.kind = "num_op_sum" =>
                ret = contract_num_op_sum(vec, operand.coeffs, norb, nelec,
                                          NoOccupations, NoOccupations)

\* a diag_coulomb adapter built with a separate mat_alpha_beta, applied to
\* a dense vector of a sector with different alpha and beta occupations
C4_Witness ==
    /\ op = "matvec" /\ RightLength /\ ret.status = "ok"
    /\ linop.kind = "diag_coulomb"
    /\ operand.mat_alpha_beta # NoArray
    /\ nelec[1] # nelec[2]
    /\ \A k \in DOMAIN ret.array.data : ret.array.data[k] # CZero
    /\ Len(vec.data) > 1

\* the operator tensors an adapter was built from are Hermitian
HermitianOperand ==
    CASE operand.kind = "one_body" -> IsHermitian(operand.one_body_tensor)
      [] operand.kind = "hamiltonian" -> IsHermitian(operand.one_body_tensor)
      [] operand.kind = "mat" -> IsSymmetric(operand.mat)
      [] OTHER -> TRUE

\* C5: for every adapter built from Hermitian operator tensors and every
\* vector of the adapter's dimension, adjoint-apply returns the same
\* vector as forward-apply.
C5_AdjointEqualsForward ==
    (op = "rmatvec" /\ RightLength /\ HermitianOperand) =>
        ret = LinearOperatorApply(linop, "matvec", vec).ret

\* the adjoint of a one-body adapter over a Hermitian matrix with
\* imaginary off-diagonal entries returned a non-zero vector
C5_Witness ==
    /\ op = "rmatvec" /\ RightLength /\ ret.status = "ok"
    /\ linop.kind = "one_body"
    /\ IsHermitian(operand.one_body_tensor)
    /\ \E x \in DOMAIN operand.one_body_tensor.data : operand.one_body_tensor.data[x][2] # 0
    /\ \E k \in DOMAIN ret.array.data : ret.array.data[k] # CZero

\* C(n, k) counted: the number of k-element sets of orbitals
Binomial(n, k) == Cardinality(StringSet(n, k))

\* C6: for 0 <= n_alpha, n_beta <= norb, get_dimension is exactly
\* C(norb, n_alpha) * C(norb, n_beta), and every adapter declares that
\* number as its row count and as its column count.
C6_DimensionIsBinomialProduct ==
    ValidSector =>
        /\ op = "get_dimension" =>
                (ret.status = "ok"
                 /\ ret.number = Binomial(norb, nelec[1]) * Binomial(norb, nelec[2]))
        /\ linop.kind # "none" =>
                linop.shape = <<Binomial(norb, nelec[1]) * Binomial(norb, nelec[2]),
                                Binomial(norb, nelec[1]) * Binomial(norb, nelec[2])>>

\* get_dimension ran on a sector with different alpha and beta counts and
\* returned more than one
C6_Witness ==
    /\ op = "get_dimension" /\ ValidSector
    /\ comb(norb, nelec[1]) # comb(norb, nelec[2])
    /\ nelec[1] > 1 /\ nelec[2] > 1
    /\ ret.number > norb * norb

\* C7: get_dimension fails with an InvalidParameter condition whenever a
\* sector particle count is negative or greater than norb, and returns no
\* number.
C7_DimensionRejectsInvalid ==
    (op = "get_dimension" /\ ~ValidSector) => ret.status = "InvalidParameter"

DirectRoutines == {"contract_2e", "contract_num_op_sum", "contract_diag_coulomb"}

\* C8: a call of contract_2e, contract_num_op_sum or contract_diag_coulomb
\* whose vector length is not C(norb,n_alpha)*C(norb,n_beta) ends in an
\* error, returns no vector, and leaves the caller's vector and operator
\* tensors as they were.
C8_LengthMismatchFails ==
    [][(op' \in DirectRoutines /\ ~RightLength) =>
            /\ ret'.status = "ValueError"
            /\ ret'.array = NoArray
            /\ vec' = vec
            /\ operand' = operand]_vars

\* contract_diag_coulomb raised on a vector one entry too long, and
\* contract_2e on one entry too short
C8_Witness ==
    /\ ~RightLength
    /\ ret.status = "ValueError"
    /\ \/ op = "contract_diag_coulomb" /\ Len(vec.data) = Dim(norb, nelec) + 1
       \/ op = "contract_2e" /\ Len(vec.data) = Dim(norb, nelec) - 1

\* C9: for contract_2e and for the forward-apply of one_body_tensor_to_linop
\* the call succeeds and the result is real when tensor and vector are both
\* real and complex when either is complex.
C9_DtypePromotion ==
    /\ (op = "contract_2e" /\ RightLength) =>
            (ret.status = "ok"
             /\ ret.array.dtype = ResultType(operand.eri.dtype, vec.dtype))
    /\ (op = "matvec" /\ linop.kind = "one_body" /\ RightLength) =>
            (ret.status = "ok"
             /\ ret.array.dtype = ResultType(operand.one_body_tensor.dtype, vec.dtype))

\* the dtype of the tensors an adapter was built from
SuppliedDtype ==
    CASE operand.kind = "hamiltonian" ->
            ResultType(operand.one_body_tensor.dtype, operand.two_body_tensor.dtype)
      [] operand.kind = "one_body" -> operand.one_body_tensor.dtype
      [] operand.kind = "coeffs" -> operand.coeffs.dtype
      [] operand.kind = "mat" ->
            IF operand.mat_alpha_beta = NoArray THEN operand.mat.dtype
            ELSE ResultType(operand.mat.dtype, operand.mat_alpha_beta.dtype)

\* C10: every adapter declares the dtype of the tensors it was built from:
\* float when all are float, complex when one is complex.
C10_AdapterDtype ==
    linop.kind # "none" => linop.dtype = SuppliedDtype

\* four times the Z-representation eigenvalue of a determinant: the sum over
\* the pairs a < b of spin-orbitals of z_a * z_b * W[i,j], with
\* (sigma, i) = divmod(a, norb), (tau, j) = divmod(b, norb), z = -1 on an
\* occupied spin-orbital and +1 otherwise, W = M for sigma = tau and M'
\* otherwise (numerators over M.den * M'.den)
FourTimesZEigenvalue(M, Mab, det) ==
    LET z(a) == IF (a % norb) \in det[(a \div norb) + 1] THEN -1 ELSE 1
        W(a, b) == IF (a \div norb) = (b \div norb)
                   THEN CScale(Mab.den, M.data[<<a % norb, b % norb>>])
                   ELSE CScale(M.den, Mab.data[<<a % norb, b % norb>>])
        pairs == {ab \in (0 .. 2 * norb - 1) \X (0 .. 2 * norb - 1) : ab[1] < ab[2]}
    IN  CSum(pairs, LAMBDA ab : CScale(z(ab[1]) * z(ab[2]), W(ab[1], ab[2])))

\* C11: contract_diag_coulomb called with z_representation=True on the
\* single-determinant basis vector of <<O_alpha, O_beta>> returns that
\* vector scaled by the sum over the pairs a < b of spin-orbitals of
\* 0.25 * z_a * z_b * W[i,j].
C11_ZRepresentationEigenvalue ==
    (op = "contract_diag_coulomb_z_representation" /\ RightLength /\ IsUnitVec(vec)) =>
        LET M == operand.mat
            Mab == IF operand.mat_alpha_beta = NoArray THEN operand.mat
                   ELSE operand.mat_alpha_beta
        IN  /\ ret.status = "ok"
            /\ Len(ret.array.data) = Len(vec.data)
            /\ \A k \in DOMAIN vec.data :
                    CScale(4 * M.den * Mab.den, ret.array.data[k])
                        = CScale(ret.array.den,
                                 CMul(FourTimesZEigenvalue(M, Mab, DetAt(k)), vec.data[k]))

\* the one-body operator sum over p, q of M[p,q] E_pq applied to the flat
\* vector, in complex arithmetic
RefOneBody(M, data, n, ab) ==
    LET strsa == make_strings(n, ab[1])
        strsb == make_strings(n, ab[2])
        nb == Cardinality(DOMAIN strsb)
        v == [AB \in (DOMAIN strsa) \X (DOMAIN strsb) |-> data[AB[1] * nb + AB[2] + 1]]
        Epq == [pq \in Idx2(n) |-> ApplyE(pq[1], pq[2], v, strsa, strsb)]
    IN  [k \in 1 .. Len(data) |->
            CSum(Idx2(n), LAMBDA pq :
                CMul(M[pq], Epq[pq][<<(k - 1) \div nb, (k - 1) % nb>>]))]

\* f(Re M, Re v) + i*f(Im M, Re v) + i*f(Re M, Im v) - f(Im M, Im v) with f
\* the one-body operator on real operands
Recombined(M, v, n, ab) ==
    LET f(m, w) == RefOneBody(m.data, w.data, n, ab)
        rr == f(RealPart(M), RealPart(v))
        ir == f(ImagPart(M), RealPart(v))
        ri == f(RealPart(M), ImagPart(v))
        ii == f(ImagPart(M), ImagPart(v))
    IN  [k \in 1 .. Len(v.data) |->
            CSub(CAdd(CAdd(rr[k], CTimesI(ir[k])), CTimesI(ri[k])), ii[k])]

\* C12: the forward-apply of one_body_tensor_to_linop returns
\* f(Re M, Re v) + i*f(Im M, Re v) + i*f(Re M, Im v) - f(Im M, Im v), which is
\* the complex-linear one-body operator of M applied to v; the adjoint-apply
\* is the same with the conjugate transpose of M in place of M.
C12_OneBodyFourRealContractions ==
    (op \in {"matvec", "rmatvec"} /\ linop.kind = "one_body" /\ RightLength) =>
        LET M == IF op = "matvec" THEN operand.one_body_tensor
                 ELSE ConjTranspose(operand.one_body_tensor)
        IN  /\ ret.status = "ok"
            /\ ret.array.den = M.den * vec.den
            /\ ret.array.data = Recombined(M, vec, norb, nelec)
            /\ ret.array.data = RefOneBody(M.data, vec.data, norb, nelec)

\* the adjoint of an adapter over a matrix with one complex off-diagonal
\* entry, applied to a vector with imaginary parts, returned an amplitude
\* with a non-zero imaginary part
C12_Witness ==
    /\ op = "rmatvec" /\ linop.kind = "one_body" /\ RightLength /\ ret.status = "ok"
    /\ ~IsHermitian(operand.one_body_tensor)
    /\ \E x \in DOMAIN operand.one_body_tensor.data :
            x[1] # x[2] /\ operand.one_body_tensor.data[x][2] # 0
    /\ \E k \in DOMAIN vec.data : vec.data[k][2] # 0
    /\ \E k \in DOMAIN ret.array.data : ret.array.data[k][2] # 0

\* the values an array row holds
RowValues(row) == {row[k] : k \in DOMAIN row}

\* the addresses of the sector whose string has orbital i occupied / not
AddressesWith(i, n, nocc) ==
    LET strs == make_strings(n, nocc) IN {k \in DOMAIN strs : i \in strs[k]}
AddressesWithout(i, n, nocc) ==
    LET strs == make_strings(n, nocc) IN {k \in DOMAIN strs : i \notin strs[k]}

\* C13: for norb >= 1 and 0 <= nocc <= norb, gen_orbital_rotation_index
\* returns diag_strings of shape (norb, C(norb-1, nocc-1)) whose row i holds
\* exactly the addresses with orbital i occupied and off_diag_strings of
\* shape (norb, C(norb-1, nocc)) whose row i holds exactly the addresses
\* with orbital i unoccupied; the two rows are disjoint, have no repeats
\* and together hold every address in [0, C(norb, nocc)) exactly once.
C13_RotationIndexPartition ==
    op = "gen_orbital_rotation_index" =>
        LET nocc == operand.nocc
            diag == ret.index.diag_strings
            off == ret.index.off_diag_strings
        IN  /\ ret.status = "ok"
            /\ DOMAIN diag = Orbs(norb)
            /\ DOMAIN off = Orbs(norb)
            /\ \A i \in Orbs(norb) :
                    /\ DOMAIN diag[i] = 0 .. (Binomial(norb - 1, nocc - 1) - 1)
                    /\ DOMAIN off[i] = 0 .. (Binomial(norb - 1, nocc) - 1)
                    /\ RowValues(diag[i]) = AddressesWith(i, norb, nocc)
                    /\ RowValues(off[i]) = AddressesWithout(i, norb, nocc)
                    /\ Cardinality(RowValues(diag[i])) = Cardinality(DOMAIN diag[i])
                    /\ Cardinality(RowValues(off[i])) = Cardinality(DOMAIN off[i])
                    /\ RowValues(diag[i]) \cap RowValues(off[i]) = {}
                    /\ RowValues(diag[i]) \cup RowValues(off[i])
                            = 0 .. (Binomial(norb, nocc) - 1)

\* a sector where every orbital has more occupied than unoccupied
\* addresses, both kinds present
C13_Witness ==
    /\ op = "gen_orbital_rotation_index" /\ ret.status = "ok"
    /\ \A i \in Orbs(norb) :
            /\ Cardinality(DOMAIN ret.index.off_diag_strings[i]) >= 1
            /\ Cardinality(DOMAIN ret.index.diag_strings[i])
                    > Cardinality(DOMAIN ret.index.off_diag_strings[i])

\* C14: for every orbital i and position k, with str0 =
\* off_diag_strings[i, k], the nocc rows of off_diag_index[i, k] are exactly
\* the triples (j, str1, sign), one for each occupied orbital j of str0,
\* with str1 the address of str0 with j replaced by i and sign the parity
\* of that excitation, as the excitation table of str0 has them.
C14_RotationIndexMatchesTable ==
    op = "gen_orbital_rotation_index" =>
        LET nocc == operand.nocc
            strs == make_strings(norb, nocc)
            table == gen_linkstr_index(norb, nocc)
            off == ret.index.off_diag_strings
            index == ret.index.off_diag_index
        IN  /\ ret.status = "ok"
            /\ DOMAIN index = Orbs(norb)
            /\ \A i \in Orbs(norb) :
                    /\ DOMAIN index[i] = DOMAIN off[i]
                    /\ \A k \in DOMAIN off[i] :
                        LET str0 == off[i][k]
                            rows == index[i][k]
                        IN  /\ DOMAIN rows = 0 .. (nocc - 1)
                            /\ RowValues(rows)
                                    = {<<j, AddrOf(strs, ExciteString(i, j, strs[str0])),
                                         cre_des_sign(i, j, strs[str0])>> : j \in strs[str0]}
                            /\ Cardinality(RowValues(rows)) = nocc
                            /\ \A r \in DOMAIN rows :
                                    <<i, rows[r][1], rows[r][2], rows[r][3]>> \in table[str0]

\* an index with a row of negative sign and a row of positive sign
C14_Witness ==
    /\ op = "gen_orbital_rotation_index" /\ ret.status = "ok"
    /\ operand.nocc >= 2
    /\ \E i \in Orbs(norb) : \E k \in DOMAIN ret.index.off_diag_index[i] :
            /\ \E r \in DOMAIN ret.index.off_diag_index[i][k] :
                    ret.index.off_diag_index[i][k][r][3] = -1
            /\ \E r \in DOMAIN ret.index.off_diag_index[i][k] :
                    ret.index.off_diag_index[i][k][r][3] = 1

\* C15: for every total particle number n with 0 <= n <= 2*norb,
\* contract_2e called with nelec = n returns exactly what it returns when
\* called with the pair (n - floor(n/2), floor(n/2)): for odd n the alpha
\* sector holds the extra particle.
C15_TotalNelecSplit ==
    (op = "contract_2e" /\ Len(nelec) = 1) =>
        LET n == nelec[1]
            pair == <<n - (n \div 2), n \div 2>>
        IN  (0 <= n /\ n <= 2 * norb) =>
                /\ ret = contract_2e(operand.eri, vec, norb, pair, NoLinkIndex)
                /\ ret.status = "ok" =>
                        ret.array.data = RefTwoBody(operand.eri.data, vec.data, norb, pair)

\* an odd particle number whose two sectors both have more than one
\* string, and a vector returned
C15_Witness ==
    /\ op = "contract_2e" /\ Len(nelec) = 1 /\ ret.status = "ok"
    /\ nelec[1] % 2 = 1
    /\ comb(norb, nelec[1] - (nelec[1] \div 2)) > 1
    /\ comb(norb, nelec[1] \div 2) > 1
    /\ \E k \in DOMAIN ret.array.data : ret.array.data[k] # CZero

IsZeroTensor(eri) == \A x \in DOMAIN eri.data : eri.data[x] = CZero

\* the value part of C16: whenever contract_2e returns on a tensor of
\* zeros, it returns the zero vector of the input's length
Contract2eZeroWhenReturned ==
    (op = "contract_2e" /\ IsZeroTensor(operand.eri) /\ ret.status = "ok") =>
        /\ Len(ret.array.data) = Len(vec.data)
        /\ \A k \in DOMAIN ret.array.data : ret.array.data[k] = CZero

\* C16: for every norb, nelec and CI vector of the right length,
\* contract_2e called with a two-body tensor whose entries are all zero
\* returns the zero vector, of the same length as the input vector.
C16_ZeroTensorGivesZeroVector ==
    (op = "contract_2e" /\ RightLength /\ IsZeroTensor(operand.eri)) =>
        /\ ret.status = "ok"
        /\ Len(ret.array.data) = Len(vec.data)
        /\ \A k \in DOMAIN ret.array.data : ret.array.data[k] = CZero

\* C17: for an adapter built once, under every interleaving of concurrent
\* forward-apply calls, on the same or on different vectors, each call
\* returns what it returns when run alone, and no step changes the
\* captured tensors, excitation tables or occupation lists.
C17_ConcurrentAppliesIndependent ==
    [][/\ linop' = linop
       /\ operand' = operand
       /\ \A t \in Callers :
            calls'[t].pc = "returned" =>
                calls'[t].ret = linop_matvec(linop', calls'[t].v).ret]_vars

\* one caller has its result from the diag_coulomb adapter, not zero, while
\* another caller, applying it to a different vector, has halved its
\* matrix and not yet run the kernel
C17_Witness ==
    /\ linop.kind = "diag_coulomb"
    /\ \E t \in Callers, u \in Callers :
        /\ t # u
        /\ calls[t].pc = "returned"
        /\ calls[t].ret.status = "ok"
        /\ \E k \in DOMAIN calls[t].ret.array.data : calls[t].ret.array.data[k] # CZero
        /\ calls[u].pc = "halved"
        /\ calls[u].v # calls[t].v

\* the tables or lists an adapter captured at construction
CapturedTables(lo) ==
    IF lo.kind \in {"hamiltonian", "one_body"} THEN lo.link_index
    ELSE <<lo.occupations_a, lo.occupations_b>>

Constructors ==
    {"get_hamiltonian_linop", "one_body_tensor_to_linop", "num_op_sum_to_linop",
     "diag_coulomb_to_linop"}

\* C18: each adapter's constructor builds the excitation tables or the
\* occupation lists, one per spin sector, and the adapter captures them;
\* no forward-apply or adjoint-apply builds a table or list, none changes
\* the captured ones, and every call that reaches the routine works with
\* the captured ones.
C18_TablesBuiltOnceAtConstruction ==
    [][/\ op' \in Constructors =>
            /\ tables'.built = 2
            /\ linop'.kind # "none" => CapturedTables(linop') = tables'.used
       /\ op' \in {"matvec", "rmatvec"} =>
            /\ tables'.built = 0
            /\ CapturedTables(linop') = CapturedTables(linop)
            /\ Len(vec.data) = linop.shape[1] => tables'.used = CapturedTables(linop)]_vars

\* an adjoint-apply of the Hamiltonian adapter returned a vector, built no
\* table and worked with the two captured link tables
C18_Witness ==
    /\ op = "rmatvec" /\ linop.kind = "hamiltonian" /\ ret.status = "ok"
    /\ tables.built = 0
    /\ tables.used = linop.link_index
    /\ Len(tables.used) = 2
    /\ \E str0 \in DOMAIN tables.used[1] : tables.used[1][str0] # {}
    /\ \E k \in DOMAIN ret.array.data : ret.array.data[k] # CZero

\* the contracted intermediate of contract_2e on the caller's arguments:
\* T'[b,j] = sum over a, i of V[b,j,a,i] * T[a,i], where T[a,i] is the CI
\* matrix with E_ai applied (what the first pass accumulates)
ContractedIntermediate ==
    LET ab == SplitNelec(nelec)
        strsa == make_strings(norb, ab[1])
        strsb == make_strings(norb, ab[2])
        nb == Cardinality(DOMAIN strsb)
        ci0 == [AB \in (DOMAIN strsa) \X (DOMAIN strsb) |-> vec.data[AB[1] * nb + AB[2] + 1]]
        T == [ai \in Idx2(norb) |-> ApplyE(ai[1], ai[2], ci0, strsa, strsb)]
    IN  [bj \in Idx2(norb) |->
            [AB \in DOMAIN ci0 |->
                CSum(Idx2(norb), LAMBDA ai :
                    \* a zero entry of V contributes nothing
                    IF operand.eri.data[<<bj[1], bj[2], ai[1], ai[2]>>] = CZero THEN CZero
                    ELSE CMul(operand.eri.data[<<bj[1], bj[2], ai[1], ai[2]>>], T[ai][AB]))]]

\* the entries <<s, a, i, d, sign>> of the excitation table of a sector
TableEntries(nocc) == LinkEntries(gen_linkstr_index(norb, nocc))

\* Out, flat, when for every entry (a, i, d, sign) of source address s the
\* row of the destination d receives the intermediate of the source s:
\* Out[d,:] += sign * T'[a,i,s,:] and Out[:,d] += sign * T'[a,i,:,s]
OutDestinationReceives(Tc) ==
    LET ab == SplitNelec(nelec)
        nb == comb(norb, ab[2])
        ea == TableEntries(ab[1])
        eb == TableEntries(ab[2])
    IN  [k \in 1 .. Len(vec.data) |->
            LET A == (k - 1) \div nb
                B == (k - 1) % nb
            IN  CAdd(CSum({e \in ea : e[4] = A},
                          LAMBDA e : CScale(e[5], Tc[<<e[2], e[3]>>][<<e[1], B>>])),
                     CSum({e \in eb : e[4] = B},
                          LAMBDA e : CScale(e[5], Tc[<<e[2], e[3]>>][<<A, e[1]>>])))]

\* Out, flat, when the row of the source s receives the intermediate of the
\* destination d: Out[s,:] += sign * T'[a,i,d,:] and
\* Out[:,s] += sign * T'[a,i,:,d]
OutSourceReceives(Tc) ==
    LET ab == SplitNelec(nelec)
        nb == comb(norb, ab[2])
        ea == TableEntries(ab[1])
        eb == TableEntries(ab[2])
    IN  [k \in 1 .. Len(vec.data) |->
            LET A == (k - 1) \div nb
                B == (k - 1) % nb
            IN  CAdd(CSum({e \in ea : e[1] = A},
                          LAMBDA e : CScale(e[5], Tc[<<e[2], e[3]>>][<<e[4], B>>])),
                     CSum({e \in eb : e[1] = B},
                          LAMBDA e : CScale(e[5], Tc[<<e[2], e[3]>>][<<A, e[4]>>])))]

\* C19 as the code has it: in the second pass of contract_2e, for every
\* alpha source address s and entry (a, i, d, sign) of its table the output
\* row of the destination receives the contracted intermediate of the
\* source, Out[d,:] += sign * T'[a,i,s,:], and for every beta source address
\* s and entry, Out[:,d] += sign * T'[a,i,:,s].
C19_SecondPassDestinationReceives ==
    (op = "contract_2e" /\ ret.status = "ok") =>
        ret.array.data = OutDestinationReceives(ContractedIntermediate)

\* C19 as stated: the output row of the source address receives the
\* contracted intermediate of the destination address,
\* Out[s,:] += sign * T'[a,i,d,:] and Out[:,s] += sign * T'[a,i,:,d].
C19_SecondPassSourceReceives ==
    (op = "contract_2e" /\ ret.status = "ok") =>
        ret.array.data = OutSourceReceives(ContractedIntermediate)

\* contract_2e returned a non-zero vector for a tensor with an entry
\* V[b,j,a,i], b # j, in a sector with several alpha and beta strings
C19_Witness ==
    /\ op = "contract_2e" /\ ret.status = "ok"
    /\ Len(nelec) = 2
    /\ comb(norb, nelec[1]) > 1 /\ comb(norb, nelec[2]) > 1
    /\ \E x \in DOMAIN operand.eri.data : x[1] # x[2] /\ operand.eri.data[x] # CZero
    /\ \E k \in DOMAIN ret.array.data : ret.array.data[k] # CZero
    /\ ret.array.data # OutSourceReceives(ContractedIntermediate)

\* the particle counts of the sectors whose tables the last routine used,
\* in the order of tables.used
UsedSectors ==
    IF op = "contract_2e" THEN SplitNelec(nelec) ELSE <<operand.nocc>>

\* C20: the excitation table consumed by contract_2e and by
\* gen_orbital_rotation_index is symmetric under adjunction: whenever
\* (a, i, d, sign) is an entry of source address s, (i, a, s, sign) is an
\* entry of address d; and an entry for (a, i) exists at s exactly when
\* orbital i is occupied in the string of s and a = i or orbital a is
\* unoccupied there.
C20_TableSymmetricUnderAdjunction ==
    op \in {"contract_2e", "gen_orbital_rotation_index"} =>
        /\ Len(tables.used) = Len(UsedSectors)
        /\ \A t \in DOMAIN tables.used :
            LET table == tables.used[t]
                strs == make_strings(norb, UsedSectors[t])
            IN  /\ DOMAIN table = DOMAIN strs
                /\ \A s \in DOMAIN table :
                    /\ \A e \in table[s] :
                            /\ e[3] \in DOMAIN table
                            /\ e[4] \in {1, -1}
                            /\ <<e[2], e[1], s, e[4]>> \in table[e[3]]
                    /\ \A a \in Orbs(norb), i \in Orbs(norb) :
                            (\E e \in table[s] : e[1] = a /\ e[2] = i)
                                <=> (i \in strs[s] /\ (a = i \/ a \notin strs[s]))

\* a table with an entry of negative sign between two different addresses
C20_Witness ==
    /\ op \in {"contract_2e", "gen_orbital_rotation_index"}
    /\ \E t \in DOMAIN tables.used : \E s \in DOMAIN tables.used[t] :
            \E e \in tables.used[t][s] :
                /\ e[4] = -1
                /\ e[3] # s
                /\ <<e[2], e[1], s, -1>> \in tables.used[t][e[3]]

\* C21: a successful call of contract_diag_coulomb leaves the caller's mat,
\* mat_alpha_beta and vec as the caller created them, the diagonal being
\* halved on a private copy; so after any number of successive
\* forward-applies of one diag_coulomb_to_linop adapter the captured mat
\* (and mat_alpha_beta) is still the matrix given at construction, and the
\* k-th application to the vector returned what the first returned.
C21_CallLeavesArraysUnchanged ==
    (op \in {"contract_diag_coulomb", "matvec"} /\ ret.status = "ok") =>
        /\ operand.mat = history.mat
        /\ operand.mat_alpha_beta = history.mat_alpha_beta
        /\ vec = history.vec
        /\ op = "matvec" =>
                /\ linop.tensor = history.mat
                /\ linop.tensor2 = history.mat_alpha_beta
                /\ ret = history.first

\* the last of MaxApplies successful forward-applies, made after a direct
\* call, with a mat whose diagonal is not zero and mat_alpha_beta left to
\* default to it, returned a vector that is not zero
C21_Witness ==
    /\ op = "matvec" /\ ret.status = "ok"
    /\ history.applied = MaxApplies /\ history.called >= 1
    /\ operand.mat_alpha_beta = NoArray
    /\ \E i \in Orbs(norb) : operand.mat.data[<<i, i>>] # CZero
    /\ \E k \in DOMAIN ret.array.data : ret.array.data[k] # CZero

====
